---- MODULE Spec2Model ----
(***************************************************************************)
(* The WhatsApp Web automation server: one global session (browser, page,  *)
(* logged-in and ready flags) driven by HTTP request handlers and by the    *)
(* QR scan monitor, all of them async functions on one Node.js event loop.  *)
(*                                                                         *)
(* The repository holds the server in several variants.  Two are modelled: *)
(*   "index"   src/index.js, lines 1-1319                                  *)
(*   "part004" src/unnamed/part_004                                        *)
(* `variant' is fixed by Init and selects the handlers that run.           *)
(*                                                                         *)
(* Execution model.  JavaScript runs a handler without interruption up to   *)
(* its next `await'.  One action of this module is one such run: the        *)
(* completion of the page/browser operation a handler is waiting for, the   *)
(* synchronous code after it, and the issue of the next operation.  The     *)
(* page object an operation is issued on is the value `globalPage' has at   *)
(* the issue (field pg); what the operation finds is decided by the state   *)
(* of that page when it completes.  Operations the code issues back to      *)
(* back on one page (a goto, its stabilisation wait and the dialog          *)
(* dismissal, say) form a single operation of the model.                    *)
(*                                                                         *)
(* Time is not measured.  Whether the monitor's maximum window, or the QR   *)
(* refresh interval, has elapsed when a tick compares currentTime with the  *)
(* closure's startTime or lastQRRefresh is a choice of the environment,     *)
(* so the closure's two timestamps are not part of the state.               *)
(***************************************************************************)
EXTENDS Integers, Sequences, FiniteSets, TLC

\* ---------------------------------------------------------------- bounds
MaxCalls == 3       \* HTTP requests issued in one run
MaxInFlight == 2    \* request handlers running at once
MaxBrowsers == 2    \* browsers launched in one run
MaxMonitors == 2    \* monitor timers created in one run
MaxTicks == 2       \* monitor ticks running at once
MaxFires == 2       \* monitor ticks fired in one run
MaxItems == 2       \* items of a bulk request
MaxRefreshes == 3   \* POST /refresh-qr requests followed with their times

\* ------------------------------------------------------ program constants

QRThreshold == 1000        \* index.js:436   shortest canvas data URL taken as an image
DataUrlPrefixLen == 22     \* index.js:440   length of "data:image/png;base64,"
ScreenshotMin == 500       \* part_004:471  smallest screenshot buffer accepted

Slots == 1..MaxInFlight
TickSlots == 1..MaxTicks
Browsers == 1..MaxBrowsers
Monitors == 1..MaxMonitors

VARIABLES
  variant,                \* which server file runs
  globalBrowser,          \* index.js:17   0 is null
  globalPage,             \* index.js:18   0 is null
  isLoggedIn,             \* index.js:19
  isWhatsAppReady,        \* index.js:20
  qrMonitoringIntervalId, \* part_004:21   0 is null
  alive,                  \* browsers launched and not closed
  closing,                \* browsers a 'disconnected' handler is closing
  pageOf,                 \* pageOf[p]: the browser page p was opened in
  open,                   \* pages not closed
  loaded,                 \* pages that navigated to the application
  authed,                 \* browsers whose context is authenticated
  monitors,               \* the timers setInterval created, with their closures
  ticks,                  \* the running callbacks of the timers
  reqs,                   \* the running request handlers
  calls,                  \* requests issued so far
  fires,                  \* ticks fired so far
  launched,               \* browsers launched so far
  ret,                    \* the response the last step sent, if any
  loginSeen,              \* history: a tick's probe succeeded, and since then
                          \* no close() was called, no browser.close() returned
                          \* and no browser disconnected
  job                     \* the send request followed in detail, if any

session == <<globalBrowser, globalPage, isLoggedIn, isWhatsAppReady>>
world == <<alive, closing, pageOf, open, loaded, authed>>
vars == <<variant, globalBrowser, globalPage, isLoggedIn, isWhatsAppReady,
          qrMonitoringIntervalId, alive, closing, pageOf, open, loaded, authed,
          monitors, ticks, reqs, calls, fires, launched, ret, loginSeen, job>>

\* ------------------------------------------------------------- records
Idle == [kind |-> "idle", pc |-> "idle", pg |-> 0, br |-> 0, left |-> 0, solo |-> FALSE]
IdleTick == [pc |-> "idle", mon |-> 0, pg |-> 0]
\* browser and closedAt are history: the browser the timer was started for, and
\* how many pages had been created when the first close() after the timer's
\* creation returned (-1: none has).
NoMonitor == [st |-> "unused", browser |-> 0, qrRefreshInProgress |-> FALSE,
              closedAt |-> -1]
NoRet == [kind |-> "none", result |-> "none", qrLen |-> 0, solo |-> FALSE,
          browserActive |-> FALSE, pageActive |-> FALSE, loggedIn |-> FALSE,
          ready |-> FALSE, monitoring |-> FALSE]

Reply(kind, result) == [NoRet EXCEPT !.kind = kind, !.result = result]

\* ------------------------------------------------------ the page driver
\* A page operation succeeds only on an open page of a live browser.
Usable(p) == p # 0 /\ p \in open /\ pageOf[p] \in alive

\* checkLoginStatus: a landmark of the authenticated UI is visible.
\* Every error is swallowed and reported as not logged in.
checkLoginStatus(p) == Usable(p) /\ p \in loaded /\ pageOf[p] \in authed

\* The QR canvas is on the page: the application is loaded and not authenticated.
QRPresent(p) == Usable(p) /\ p \in loaded /\ pageOf[p] \notin authed

PagesOf(b) == {p \in 1..Len(pageOf) : pageOf[p] = b}

ActiveMonitors == {m \in Monitors : monitors[m].st = "active"}
NextMonitor == Cardinality({m \in Monitors : monitors[m].st # "unused"}) + 1

InFlight(kind) == {s \in Slots : reqs[s].kind = kind}
Busy == {s \in Slots : reqs[s].kind # "idle"}
RunningTicks == {t \in TickSlots : ticks[t].pc # "idle"}

\* ---------------------------------------------------------------- Init
\* No send request is followed in detail.
\* items: the messages of the request body; i: the item in hand; results: the
\* results pushed so far; content, pageOps, waits: the payload composed, the
\* page operations issued and the selector waits timed out for the item in
\* hand; raised: the send function threw; status, summary: the response;
\* now: the time.
NoJob == [route |-> "none", items |-> <<>>, i |-> 0, pc |-> "idle", results |-> <<>>,
          content |-> <<>>, pageOps |-> 0, waits |-> 0, raised |-> FALSE,
          status |-> 0, summary |-> <<>>, now |-> 0]

\* The state after construction, but for the variant and the request followed.
InitSession ==
  /\ globalBrowser = 0 /\ globalPage = 0
  /\ isLoggedIn = FALSE /\ isWhatsAppReady = FALSE
  /\ qrMonitoringIntervalId = 0
  /\ alive = {} /\ closing = {} /\ pageOf = <<>> /\ open = {} /\ loaded = {} /\ authed = {}
  /\ monitors = [m \in Monitors |-> NoMonitor]
  /\ ticks = [t \in TickSlots |-> IdleTick]
  /\ reqs = [s \in Slots |-> Idle]
  /\ calls = 0 /\ fires = 0 /\ launched = 0
  /\ ret = NoRet
  /\ loginSeen = FALSE

Init ==
  /\ variant \in {"index", "part004"}
  /\ InitSession
  /\ job = NoJob

\* What canvas.toDataURL gives in characters (0: null or an exception) and what
\* the element screenshot gives in bytes (-1: the screenshot throws).
CanvasLens == {0, 999, 1000}
ShotLens == {-1, 0, 100, 1500}

\* Buffer.toString('base64'): four characters for every three bytes.
Base64Len(n) == 4 * ((n + 2) \div 3)

\* An extraction without the screenshot fallback: whatever canvas.toDataURL
\* gave is returned.
extractQRCodeNoFallback(found, canvasLen, shotLen) ==
  IF ~found
  THEN [success |-> FALSE, qrLen |-> 0, method |-> "none"]
  ELSE [success |-> TRUE, qrLen |-> canvasLen, method |-> "canvas"]

\* extractQRCode once the QR element was looked for: the canvas data URL, or
\* the element screenshot when the data URL is missing or short.
extractQRCode(found, canvasLen, shotLen) ==
  IF ~found
  THEN [success |-> FALSE, qrLen |-> 0, method |-> "none"]
  ELSE IF canvasLen = 0 \/ canvasLen < QRThreshold
       THEN IF shotLen < 0
            THEN [success |-> FALSE, qrLen |-> 0, method |-> "none"]
            ELSE [success |-> TRUE, qrLen |-> DataUrlPrefixLen + Base64Len(shotLen),
                  method |-> "screenshot"]
       ELSE [success |-> TRUE, qrLen |-> canvasLen, method |-> "canvas"]

\* The results extractQRCode can return on page p.
Extractions(p) ==
  {extractQRCode(f, c, h) : f \in {FALSE, QRPresent(p)}, c \in CanvasLens, h \in ShotLens}

\* ------------------------------------------------------------- helpers
\* Handlers have no identity: a new one takes the first free place.
FreeSlot(s) == reqs[s].kind = "idle" /\ \A x \in Slots : x < s => reqs[x].kind # "idle"
FreeTick(t) == ticks[t].pc = "idle" /\ \A x \in TickSlots : x < t => ticks[x].pc # "idle"

\* Nor do they have an order: of the arrangements of the same records over
\* the places, one is kept.
Canon(f) ==
  CHOOSE g \in {[i \in DOMAIN f |-> f[p[i]]] : p \in Permutations(DOMAIN f)} : TRUE

SetReq(s, r) == reqs' = Canon([reqs EXCEPT ![s] = r])
\* A request that starts ends the solitude of the handlers already running.
StartReq(s, r) ==
  reqs' = Canon([x \in Slots |-> IF x = s THEN r ELSE [reqs[x] EXCEPT !.solo = FALSE]])
\* No handler and no tick is running and no timer is set.
Quiet == Busy = {} /\ RunningTicks = {} /\ ActiveMonitors = {}
Fresh == globalBrowser = 0 /\ globalPage = 0 /\ ~isLoggedIn /\ Quiet

\* Room for the browser and the timer a new initialize or refresh may create.
Room ==
  /\ launched + Cardinality(InFlight("initialize")) < MaxBrowsers
  /\ (NextMonitor - 1) + Cardinality(InFlight("initialize") \cup InFlight("refresh"))
       < MaxMonitors

\* monitorQRScanCompletion: setInterval with a fresh closure.
monitorQRScanCompletion ==
  /\ monitors' = [monitors EXCEPT ![NextMonitor] =
       [NoMonitor EXCEPT !.st = "active", !.browser = globalBrowser]]
  /\ UNCHANGED qrMonitoringIntervalId

\* cleanup() up to its await: nothing to close, or browser.close() is issued.
\* The value is the handler's next record; `after' names the caller.
cleanupIssued(r) == [r EXCEPT !.pc = "closing", !.br = globalBrowser, !.pg = 0]

\* close() has returned: noted in every timer created so far.
closeReturned(mons) ==
  [m \in Monitors |-> IF mons[m].st = "unused" \/ mons[m].closedAt >= 0
                      THEN mons[m]
                      ELSE [mons[m] EXCEPT !.closedAt = Len(pageOf)]]

\* A guard that also asks for the ready flag.
alreadyActiveWhenReady == isLoggedIn /\ globalBrowser # 0 /\ isWhatsAppReady

\* The guard of POST /initialize.
alreadyActive == isLoggedIn /\ globalBrowser # 0

\* ---------------------------------------------------- POST /initialize
InitializeCall(s) ==
  /\ variant = "index"
  /\ FreeSlot(s) /\ calls < MaxCalls
  /\ calls' = calls + 1
  /\ IF alreadyActive
     THEN /\ ret' = [Reply("initialize", "alreadyActive") EXCEPT !.loggedIn = TRUE]
          /\ UNCHANGED reqs
     ELSE /\ Room
          /\ StartReq(s, [Idle EXCEPT !.kind = "initialize", !.pc = "launch",
                                      !.solo = Fresh])
          /\ ret' = NoRet
  /\ UNCHANGED <<variant, job, session, qrMonitoringIntervalId, world, monitors, ticks,
                 fires, launched, loginSeen>>

\* The catch block of initializeWhatsApp: await cleanup(), then rethrow.
initializeFailed(s) ==
  IF globalBrowser # 0
  THEN SetReq(s, cleanupIssued(reqs[s])) /\ ret' = NoRet
  ELSE /\ SetReq(s, Idle)
       /\ ret' = [Reply("initialize", "error") EXCEPT !.solo = reqs[s].solo]

\* chromium.launch() returns or throws.
InitializeLaunch(s) ==
  /\ variant = "index"
  /\ reqs[s].kind = "initialize" /\ reqs[s].pc = "launch"
  /\ \E ok \in BOOLEAN :
       IF ok
       THEN /\ launched' = launched + 1
            /\ alive' = alive \cup {launched + 1}
            /\ globalBrowser' = launched + 1
            /\ SetReq(s, [reqs[s] EXCEPT !.pc = "newPage", !.br = launched + 1])
            /\ ret' = NoRet
            /\ UNCHANGED <<closing, pageOf, open, loaded, authed>>
       ELSE /\ initializeFailed(s)
            /\ UNCHANGED <<launched, globalBrowser, world>>
  /\ UNCHANGED <<variant, job, globalPage, isLoggedIn, isWhatsAppReady,
                 qrMonitoringIntervalId, monitors, ticks, calls, fires, loginSeen>>

\* browser.newContext() and context.newPage() on the browser just launched;
\* addInitScript and goto are issued on globalPage.
InitializeNewPage(s) ==
  /\ variant = "index"
  /\ reqs[s].kind = "initialize" /\ reqs[s].pc = "newPage"
  /\ IF reqs[s].br \in alive
     THEN /\ pageOf' = Append(pageOf, reqs[s].br)
          /\ open' = open \cup {Len(pageOf) + 1}
          /\ globalPage' = Len(pageOf) + 1
          /\ SetReq(s, [reqs[s] EXCEPT !.pc = "goto", !.pg = Len(pageOf) + 1])
          /\ ret' = NoRet
     ELSE /\ initializeFailed(s)
          /\ UNCHANGED <<pageOf, open, globalPage>>
  /\ UNCHANGED <<variant, job, globalBrowser, isLoggedIn, isWhatsAppReady,
                 qrMonitoringIntervalId, alive, closing, loaded, authed, monitors,
                 ticks, calls, fires, launched, loginSeen>>

\* goto returns or throws; then the stabilisation wait and
\* handleCompatibilityWarnings on globalPage, and the login probe is issued.
InitializeGoto(s) ==
  /\ variant = "index"
  /\ reqs[s].kind = "initialize" /\ reqs[s].pc = "goto"
  /\ \E ok \in BOOLEAN :
       IF ok /\ Usable(reqs[s].pg) /\ globalPage # 0
       THEN /\ loaded' = loaded \cup {reqs[s].pg}
            /\ SetReq(s, [reqs[s] EXCEPT !.pc = "probe", !.pg = globalPage])
            /\ ret' = NoRet
       ELSE /\ initializeFailed(s)
            /\ UNCHANGED loaded
  /\ UNCHANGED <<variant, job, session, qrMonitoringIntervalId, alive, closing, pageOf,
                 open, authed, monitors, ticks, calls, fires, launched, loginSeen>>

\* checkLoginStatus returned: logged in, or extractQRCode is issued.
InitializeProbe(s) ==
  /\ variant = "index"
  /\ reqs[s].kind = "initialize" /\ reqs[s].pc = "probe"
  /\ IF checkLoginStatus(reqs[s].pg)
     THEN /\ isLoggedIn' = TRUE
          /\ SetReq(s, Idle)
          /\ ret' = [Reply("initialize", "loggedIn") EXCEPT !.loggedIn = TRUE,
                                                           !.solo = reqs[s].solo]
     ELSE /\ SetReq(s, [reqs[s] EXCEPT !.pc = "extract", !.pg = globalPage])
          /\ ret' = NoRet
          /\ UNCHANGED isLoggedIn
  /\ UNCHANGED <<variant, job, globalBrowser, globalPage, isWhatsAppReady,
                 qrMonitoringIntervalId, world, monitors, ticks, calls, fires,
                 launched, loginSeen>>

\* extractQRCode returned: the monitor is started and the QR code returned,
\* or the failure is thrown.
InitializeExtract(s) ==
  /\ variant = "index"
  /\ reqs[s].kind = "initialize" /\ reqs[s].pc = "extract"
  /\ \E qr \in Extractions(reqs[s].pg) :
       IF qr.success
       THEN /\ monitorQRScanCompletion
            /\ SetReq(s, Idle)
            /\ ret' = [Reply("initialize", "qr") EXCEPT !.qrLen = qr.qrLen,
                                                       !.solo = reqs[s].solo]
       ELSE /\ initializeFailed(s)
            /\ UNCHANGED <<monitors, qrMonitoringIntervalId>>
  /\ UNCHANGED <<variant, job, session, world, ticks, calls, fires, launched, loginSeen>>

\* ------------------------------------------------------------ cleanup
\* browser.close() returned or threw.  The assignments that reset the session
\* follow the await inside the try block, so an exception skips them.
cleanup(s, ok) ==
  IF ok
  THEN /\ alive' = alive \ {reqs[s].br}
       /\ globalBrowser' = 0 /\ globalPage' = 0
       /\ isLoggedIn' = FALSE /\ isWhatsAppReady' = FALSE
  ELSE UNCHANGED <<alive, session>>

CleanupDone(s) ==
  /\ variant = "index"
  /\ reqs[s].pc = "closing"
  /\ \E ok \in BOOLEAN : cleanup(s, ok \/ reqs[s].br \notin alive)
  /\ SetReq(s, Idle)
  /\ IF reqs[s].kind = "close"
     THEN /\ ret' = Reply("close", "closed")
          /\ monitors' = closeReturned(monitors)
          /\ loginSeen' = FALSE
     ELSE /\ ret' = [Reply("initialize", "error") EXCEPT !.solo = reqs[s].solo]
          /\ UNCHANGED <<monitors, loginSeen>>
  /\ UNCHANGED <<variant, job, qrMonitoringIntervalId, closing, pageOf, open, loaded,
                 authed, ticks, calls, fires, launched>>

\* --------------------------------------------------------- POST /close
CloseCall(s) ==
  /\ variant = "index"
  /\ FreeSlot(s) /\ calls < MaxCalls
  /\ calls' = calls + 1
  /\ IF globalBrowser # 0
     THEN /\ StartReq(s, cleanupIssued([Idle EXCEPT !.kind = "close"]))
          /\ ret' = NoRet
          /\ UNCHANGED monitors
     ELSE /\ ret' = Reply("close", "closed")
          /\ monitors' = closeReturned(monitors)
          /\ UNCHANGED reqs
  /\ loginSeen' = FALSE
  /\ UNCHANGED <<variant, job, session, qrMonitoringIntervalId, world, ticks, fires,
                 launched>>

\* ---------------------------------------------------------- GET /status
\* History kept in the status response: the request directly follows the
\* return of an initialize that ran alone on a fresh session and sent the QR code.
afterSoloQr == ret.kind = "initialize" /\ ret.result = "qr" /\ ret.solo

GetStatus ==
  /\ variant = "index"
  /\ ret' = [Reply("status", "ok") EXCEPT
               !.browserActive = (globalBrowser # 0),
               !.pageActive = (globalPage # 0),
               !.loggedIn = isLoggedIn,
               !.ready = isWhatsAppReady,
               !.solo = afterSoloQr]
  /\ calls < MaxCalls /\ calls' = calls + 1
  /\ UNCHANGED <<variant, job, session, qrMonitoringIntervalId, world, monitors, ticks,
                 reqs, fires, launched, loginSeen>>

\* --------------------------------- POST /send-message, POST /send-messages
\* sendCombinedMessage returned its result to the route: the single send
\* answers; the bulk loop sleeps before its next item or answers the summary.
sendReturned(s, success) ==
  IF reqs[s].kind = "send"
  THEN /\ SetReq(s, Idle)
       /\ ret' = Reply("send", IF success THEN "sent" ELSE "failed")
  ELSE IF reqs[s].left > 1
       THEN /\ SetReq(s, [reqs[s] EXCEPT !.pc = "delay", !.pg = 0, !.left = @ - 1])
            /\ ret' = NoRet
       ELSE /\ SetReq(s, Idle)
            /\ ret' = Reply("bulk", "summary")

\* navigateToChat from its start to its first pending operation: the readiness
\* wait when the ready flag is clear, else handleDialogs and goto.
sendIssued(r) ==
  [r EXCEPT !.pc = IF isWhatsAppReady THEN "nav" ELSE "readywait", !.pg = globalPage]

SendCall(s, kind, n) ==
  /\ variant = "index"
  /\ FreeSlot(s) /\ calls < MaxCalls
  /\ calls' = calls + 1
  /\ IF globalPage = 0 \/ globalBrowser = 0
     THEN ret' = Reply(kind, "notInitialized") /\ UNCHANGED reqs
     ELSE IF ~isLoggedIn
          THEN ret' = Reply(kind, "notLoggedIn") /\ UNCHANGED reqs
          ELSE /\ StartReq(s, sendIssued([Idle EXCEPT !.kind = kind, !.left = n]))
               /\ ret' = NoRet
  /\ UNCHANGED <<variant, job, session, qrMonitoringIntervalId, world, monitors, ticks,
                 fires, launched, loginSeen>>

Sending(s) == reqs[s].kind \in {"send", "bulk"}
\* sendCombinedMessage is running in handler s.
Dispatching(s) == Sending(s) /\ reqs[s].pc # "delay"

\* waitForWhatsAppReady returned or threw; the catch block of part_004 clears
\* the ready flag.
SendReady(s) ==
  /\ Sending(s) /\ reqs[s].pc = "readywait"
  /\ \E found \in {FALSE, checkLoginStatus(reqs[s].pg)} :
       IF found
       THEN /\ isWhatsAppReady' = TRUE
            /\ IF globalPage # 0
               THEN SetReq(s, [reqs[s] EXCEPT !.pc = "nav", !.pg = globalPage]) /\ ret' = NoRet
               ELSE sendReturned(s, FALSE)
       ELSE /\ sendReturned(s, FALSE)
            /\ isWhatsAppReady' = (variant = "index" /\ isWhatsAppReady)
  /\ UNCHANGED <<variant, job, globalBrowser, globalPage, isLoggedIn, qrMonitoringIntervalId,
                 world, monitors, ticks, calls, fires, launched, loginSeen>>

\* goto(chat URL) returned or threw; the compose box is waited for.
SendNav(s) ==
  /\ Sending(s) /\ reqs[s].pc = "nav"
  /\ \E ok \in BOOLEAN :
       IF ok /\ Usable(reqs[s].pg) /\ globalPage # 0
       THEN /\ loaded' = loaded \cup {reqs[s].pg}
            /\ SetReq(s, [reqs[s] EXCEPT !.pc = "resolve", !.pg = globalPage])
            /\ ret' = NoRet
       ELSE /\ sendReturned(s, FALSE)
            /\ UNCHANGED loaded
  /\ UNCHANGED <<variant, job, session, qrMonitoringIntervalId, alive, closing, pageOf,
                 open, authed, monitors, ticks, calls, fires, launched, loginSeen>>

\* The compose box was found (a chat opens only in an authenticated
\* application) or not; found, it is clicked, cleared and typed into.
SendResolve(s) ==
  /\ Sending(s) /\ reqs[s].pc = "resolve"
  /\ \E found \in {FALSE, checkLoginStatus(reqs[s].pg)} :
       IF found /\ globalPage # 0
       THEN SetReq(s, [reqs[s] EXCEPT !.pc = "type", !.pg = globalPage]) /\ ret' = NoRet
       ELSE sendReturned(s, FALSE)
  /\ UNCHANGED <<variant, job, session, qrMonitoringIntervalId, world, monitors, ticks,
                 calls, fires, launched, loginSeen>>

\* click, clear and type returned or threw; Enter is pressed.
SendType(s) ==
  /\ Sending(s) /\ reqs[s].pc = "type"
  /\ IF Usable(reqs[s].pg) /\ globalPage # 0
     THEN SetReq(s, [reqs[s] EXCEPT !.pc = "submit", !.pg = globalPage]) /\ ret' = NoRet
     ELSE sendReturned(s, FALSE)
  /\ UNCHANGED <<variant, job, session, qrMonitoringIntervalId, world, monitors, ticks,
                 calls, fires, launched, loginSeen>>

\* keyboard.press('Enter') and the wait after it returned or threw.
SendSubmit(s) ==
  /\ Sending(s) /\ reqs[s].pc = "submit"
  /\ sendReturned(s, Usable(reqs[s].pg) /\ globalPage # 0)
  /\ UNCHANGED <<variant, job, session, qrMonitoringIntervalId, world, monitors, ticks,
                 calls, fires, launched, loginSeen>>

\* The pause between two items of a bulk request is over.
BulkNext(s) ==
  /\ reqs[s].kind = "bulk" /\ reqs[s].pc = "delay"
  /\ IF globalPage # 0
     THEN SetReq(s, sendIssued(reqs[s])) /\ ret' = NoRet
     ELSE sendReturned(s, FALSE)
  /\ UNCHANGED <<variant, job, session, qrMonitoringIntervalId, world, monitors, ticks,
                 calls, fires, launched, loginSeen>>

\* ------------------------------------------------------ POST /refresh-qr
RefreshCall(s) ==
  /\ variant = "index"
  /\ FreeSlot(s) /\ calls < MaxCalls
  /\ calls' = calls + 1
  /\ IF globalPage = 0
     THEN ret' = Reply("refresh", "notInitialized") /\ UNCHANGED reqs
     ELSE IF isLoggedIn
          THEN ret' = Reply("refresh", "alreadyLoggedIn") /\ UNCHANGED reqs
          ELSE /\ Room
               /\ StartReq(s, [Idle EXCEPT !.kind = "refresh", !.pc = "reload",
                                           !.pg = globalPage])
               /\ ret' = NoRet
  /\ UNCHANGED <<variant, job, session, qrMonitoringIntervalId, world, monitors, ticks,
                 fires, launched, loginSeen>>

\* reload returned or threw; after the wait and handleCompatibilityWarnings,
\* extractQRCode is issued.
RefreshReload(s) ==
  /\ variant = "index"
  /\ reqs[s].kind = "refresh" /\ reqs[s].pc = "reload"
  /\ \E ok \in BOOLEAN :
       IF ok /\ Usable(reqs[s].pg) /\ globalPage # 0
       THEN SetReq(s, [reqs[s] EXCEPT !.pc = "extract", !.pg = globalPage]) /\ ret' = NoRet
       ELSE SetReq(s, Idle) /\ ret' = Reply("refresh", "error")
  /\ UNCHANGED <<variant, job, session, qrMonitoringIntervalId, world, monitors, ticks,
                 calls, fires, launched, loginSeen>>

\* extractQRCode returned.
RefreshExtract(s) ==
  /\ variant = "index"
  /\ reqs[s].kind = "refresh" /\ reqs[s].pc = "extract"
  /\ \E qr \in Extractions(reqs[s].pg) :
       ret' = IF qr.success THEN [Reply("refresh", "qr") EXCEPT !.qrLen = qr.qrLen]
                            ELSE Reply("refresh", "error")
  /\ SetReq(s, Idle)
  /\ UNCHANGED <<variant, job, session, qrMonitoringIntervalId, world, monitors, ticks,
                 calls, fires, launched, loginSeen>>

\* ------------------------------------------- the monitor's timer callback
clearInterval(m) == monitors' = [monitors EXCEPT ![m].st = "cleared"]
SetTick(t, r) == ticks' = Canon([ticks EXCEPT ![t] = r])

\* The timer fires: the callback runs to its first await.
TickFire(t, m) ==
  /\ variant = "index"
  /\ FreeTick(t) /\ monitors[m].st = "active" /\ fires < MaxFires
  /\ fires' = fires + 1
  /\ IF globalPage = 0 \/ isLoggedIn
     THEN clearInterval(m) /\ UNCHANGED ticks
     ELSE /\ SetTick(t, [IdleTick EXCEPT !.pc = "valid", !.mon = m, !.pg = globalPage])
          /\ UNCHANGED monitors
  /\ ret' = NoRet
  /\ UNCHANGED <<variant, job, session, qrMonitoringIntervalId, world, reqs, calls,
                 launched, loginSeen>>

\* globalPage.evaluate(() => true) returned: stop on a destroyed page, else
\* take the time and issue the login probe.
TickValid(t) ==
  /\ variant = "index"
  /\ ticks[t].pc = "valid"
  /\ IF Usable(ticks[t].pg)
     THEN /\ SetTick(t, [ticks[t] EXCEPT !.pc = "probe", !.pg = globalPage])
          /\ UNCHANGED monitors
     ELSE /\ clearInterval(ticks[t].mon)
          /\ SetTick(t, IdleTick)
  /\ ret' = NoRet
  /\ UNCHANGED <<variant, job, session, qrMonitoringIntervalId, world, reqs, calls,
                 fires, launched, loginSeen>>

\* checkLoginStatus returned: login ends the monitor; else the page is
\* reloaded when the QR code is older than the refresh interval, and the QR
\* presence check is issued otherwise.
TickProbe(t) ==
  /\ variant = "index"
  /\ ticks[t].pc = "probe"
  /\ LET m == ticks[t].mon IN
     IF checkLoginStatus(ticks[t].pg)
     THEN /\ isLoggedIn' = TRUE /\ isWhatsAppReady' = TRUE
          /\ clearInterval(m)
          /\ SetTick(t, IdleTick)
          /\ loginSeen' = TRUE
     ELSE /\ \E stale \in BOOLEAN :
               SetTick(t, [ticks[t] EXCEPT
                 !.pc = IF stale /\ globalPage # 0 THEN "reload" ELSE "qrcheck",
                 !.pg = globalPage])
          /\ UNCHANGED <<isLoggedIn, isWhatsAppReady, monitors, loginSeen>>
  /\ ret' = NoRet
  /\ UNCHANGED <<variant, job, globalBrowser, globalPage, qrMonitoringIntervalId, world,
                 reqs, calls, fires, launched>>

\* reload, the wait after it and handleCompatibilityWarnings returned (or
\* threw, which is logged); the QR presence check is issued.
TickReload(t) ==
  /\ variant = "index"
  /\ ticks[t].pc = "reload"
  /\ SetTick(t, [ticks[t] EXCEPT !.pc = "qrcheck", !.pg = globalPage])
  /\ ret' = NoRet
  /\ UNCHANGED <<variant, job, session, qrMonitoringIntervalId, world, monitors, reqs,
                 calls, fires, launched, loginSeen>>

\* The end of a tick whose currentTime - startTime exceeds the maximum window
\* (expired): the timer is not stopped, the closure's timestamps are reset.
tickTimeout(mon, expired) == mon

\* page.$$(QR canvas) returned: a live page without the QR canvas is
\* reloaded; else the maximum window is checked and the callback returns.
TickQrCheck(t) ==
  /\ variant = "index"
  /\ ticks[t].pc = "qrcheck"
  /\ IF Usable(ticks[t].pg) /\ ~QRPresent(ticks[t].pg) /\ globalPage # 0
     THEN /\ SetTick(t, [ticks[t] EXCEPT !.pc = "reloadQr", !.pg = globalPage])
          /\ UNCHANGED monitors
     ELSE /\ \E expired \in BOOLEAN :
               monitors' = [monitors EXCEPT ![ticks[t].mon] = tickTimeout(@, expired)]
          /\ SetTick(t, IdleTick)
  /\ ret' = NoRet
  /\ UNCHANGED <<variant, job, session, qrMonitoringIntervalId, world, reqs, calls,
                 fires, launched, loginSeen>>

\* The reload for the missing QR canvas, the wait and
\* handleCompatibilityWarnings returned (or threw, which is logged); the
\* maximum window is checked and the callback returns.
TickReloadQr(t) ==
  /\ variant = "index"
  /\ ticks[t].pc = "reloadQr"
  /\ \E expired \in BOOLEAN :
       monitors' = [monitors EXCEPT ![ticks[t].mon] = tickTimeout(@, expired)]
  /\ SetTick(t, IdleTick)
  /\ ret' = NoRet
  /\ UNCHANGED <<variant, job, session, qrMonitoringIntervalId, world, reqs, calls,
                 fires, launched, loginSeen>>

\* ================================================= src/unnamed/part_004
\* clearInterval(qrMonitoringIntervalId); qrMonitoringIntervalId = null
stopped(mons) ==
  IF qrMonitoringIntervalId # 0
  THEN [mons EXCEPT ![qrMonitoringIntervalId].st = "cleared"]
  ELSE mons

stopMonitoring == monitors' = stopped(monitors) /\ qrMonitoringIntervalId' = 0

resetSession ==
  /\ globalBrowser' = 0 /\ globalPage' = 0
  /\ isLoggedIn' = FALSE /\ isWhatsAppReady' = FALSE

\* page.isClosed() and browser.isConnected()
isClosed(p) == ~Usable(p)
isConnected(b) == b \in alive

\* The catch block of initializeWhatsApp; `ready' is the ready flag as the
\* failing statement left it.  cleanup() runs only without a connected
\* browser, so it closes nothing and resets the session at once.
initializeFailedP4(s, ready) ==
  /\ IF globalBrowser = 0 \/ ~isConnected(globalBrowser)
     THEN stopMonitoring /\ resetSession
     ELSE /\ globalPage' = IF globalPage # 0 /\ isClosed(globalPage) THEN 0 ELSE globalPage
          /\ isWhatsAppReady' = ready
          /\ UNCHANGED <<globalBrowser, isLoggedIn, monitors, qrMonitoringIntervalId>>
  /\ SetReq(s, Idle)
  /\ ret' = [Reply("initialize", "error") EXCEPT !.solo = reqs[s].solo]

\* POST /initialize up to the first await of initializeWhatsApp.
InitializeCallP4(s) ==
  /\ variant = "part004"
  /\ FreeSlot(s) /\ calls < MaxCalls
  /\ (globalBrowser # 0 /\ isLoggedIn) \/ Room
  /\ calls' = calls + 1
  /\ IF globalBrowser # 0 /\ isLoggedIn
     THEN /\ IF isWhatsAppReady
             THEN /\ ret' = [Reply("initialize", "alreadyActive") EXCEPT !.loggedIn = TRUE]
                  /\ UNCHANGED reqs
             ELSE /\ StartReq(s, [Idle EXCEPT !.kind = "initialize", !.pc = "readywait",
                                              !.pg = globalPage, !.solo = Quiet])
                  /\ ret' = NoRet
          /\ UNCHANGED globalPage
     ELSE IF globalBrowser # 0
          THEN IF globalPage # 0 /\ ~isClosed(globalPage)
               THEN /\ StartReq(s, [Idle EXCEPT !.kind = "initialize", !.pc = "pageClose",
                                                !.pg = globalPage])
                    /\ ret' = NoRet
                    /\ UNCHANGED globalPage
               ELSE /\ globalPage' = 0
                    /\ StartReq(s, [Idle EXCEPT !.kind = "initialize", !.pc = "newPage",
                                                !.br = globalBrowser])
                    /\ ret' = NoRet
          ELSE /\ StartReq(s, [Idle EXCEPT !.kind = "initialize", !.pc = "launch",
                                           !.solo = Fresh])
               /\ ret' = NoRet
               /\ UNCHANGED globalPage
  /\ UNCHANGED <<variant, job, globalBrowser, isLoggedIn, isWhatsAppReady,
                 qrMonitoringIntervalId, world, monitors, ticks, fires, launched,
                 loginSeen>>

\* globalPage.close() of the previous page returned (its error is swallowed).
InitializePageCloseP4(s) ==
  /\ variant = "part004"
  /\ reqs[s].kind = "initialize" /\ reqs[s].pc = "pageClose"
  /\ open' = open \ {reqs[s].pg}
  /\ globalPage' = 0
  /\ SetReq(s, IF globalBrowser = 0
               THEN [reqs[s] EXCEPT !.pc = "launch", !.pg = 0]
               ELSE [reqs[s] EXCEPT !.pc = "newPage", !.pg = 0, !.br = globalBrowser])
  /\ ret' = NoRet
  /\ UNCHANGED <<variant, job, globalBrowser, isLoggedIn, isWhatsAppReady,
                 qrMonitoringIntervalId, alive, closing, pageOf, loaded, authed,
                 monitors, ticks, calls, fires, launched, loginSeen>>

\* chromium.launch() returned or threw; the 'disconnected' handler is
\* registered and newContext issued.
InitializeLaunchP4(s) ==
  /\ variant = "part004"
  /\ reqs[s].kind = "initialize" /\ reqs[s].pc = "launch"
  /\ \E ok \in BOOLEAN :
       IF ok
       THEN /\ launched' = launched + 1
            /\ alive' = alive \cup {launched + 1}
            /\ globalBrowser' = launched + 1
            /\ SetReq(s, [reqs[s] EXCEPT !.pc = "newContext", !.br = launched + 1])
            /\ ret' = NoRet
            /\ UNCHANGED <<globalPage, isLoggedIn, isWhatsAppReady, monitors,
                           qrMonitoringIntervalId>>
       ELSE /\ initializeFailedP4(s, isWhatsAppReady)
            /\ UNCHANGED <<launched, alive>>
  /\ UNCHANGED <<variant, job, closing, pageOf, open, loaded, authed, ticks, calls, fires,
                 loginSeen>>

\* extractQRCode of part_004: as above, and a screenshot buffer under
\* ScreenshotMin bytes is refused.
extractQRCodeP4(found, canvasLen, shotLen) ==
  IF ~found
  THEN [success |-> FALSE, qrLen |-> 0, method |-> "none"]
  ELSE IF canvasLen = 0 \/ canvasLen < QRThreshold
       THEN IF shotLen < 0 \/ shotLen < ScreenshotMin
            THEN [success |-> FALSE, qrLen |-> 0, method |-> "none"]
            ELSE [success |-> TRUE, qrLen |-> DataUrlPrefixLen + Base64Len(shotLen),
                  method |-> "screenshot"]
       ELSE [success |-> TRUE, qrLen |-> canvasLen, method |-> "canvas"]

ExtractionsP4(p) ==
  {extractQRCodeP4(f, c, h) : f \in {FALSE, QRPresent(p)}, c \in CanvasLens, h \in ShotLens}

\* monitorQRScanCompletion: the previous timer is cleared, the new one kept
\* in qrMonitoringIntervalId.
monitorQRScanCompletionP4 ==
  /\ monitors' = [m \in Monitors |->
       IF m = NextMonitor
       THEN [NoMonitor EXCEPT !.st = "active", !.browser = globalBrowser]
       ELSE IF m = qrMonitoringIntervalId
            THEN [monitors[m] EXCEPT !.st = "cleared"]
            ELSE monitors[m]]
  /\ qrMonitoringIntervalId' = NextMonitor

\* newContext() returned or threw on the browser just launched; a page is
\* created unless globalPage holds an open one, and goto issued.
InitializeNewContextP4(s) ==
  /\ variant = "part004"
  /\ reqs[s].kind = "initialize" /\ reqs[s].pc = "newContext"
  /\ IF isConnected(reqs[s].br)
     THEN /\ SetReq(s, IF globalPage = 0 \/ isClosed(globalPage)
                       THEN [reqs[s] EXCEPT !.pc = "newPage"]
                       ELSE [reqs[s] EXCEPT !.pc = "goto", !.pg = globalPage])
          /\ ret' = NoRet
          /\ UNCHANGED <<session, monitors, qrMonitoringIntervalId>>
     ELSE initializeFailedP4(s, isWhatsAppReady)
  /\ UNCHANGED <<variant, job, world, ticks, calls, fires, launched, loginSeen>>

\* context.newPage() returned or threw; addInitScript and goto are issued.
InitializeNewPageP4(s) ==
  /\ variant = "part004"
  /\ reqs[s].kind = "initialize" /\ reqs[s].pc = "newPage"
  /\ IF isConnected(reqs[s].br)
     THEN /\ pageOf' = Append(pageOf, reqs[s].br)
          /\ open' = open \cup {Len(pageOf) + 1}
          /\ globalPage' = Len(pageOf) + 1
          /\ SetReq(s, [reqs[s] EXCEPT !.pc = "goto", !.pg = Len(pageOf) + 1])
          /\ ret' = NoRet
          /\ UNCHANGED <<globalBrowser, isLoggedIn, isWhatsAppReady, monitors,
                         qrMonitoringIntervalId>>
     ELSE /\ initializeFailedP4(s, isWhatsAppReady)
          /\ UNCHANGED <<pageOf, open>>
  /\ UNCHANGED <<variant, job, alive, closing, loaded, authed, ticks, calls, fires,
                 launched, loginSeen>>

\* goto returned or threw; then the stabilisation wait and
\* handleCompatibilityWarnings, and the login probe is issued.
InitializeGotoP4(s) ==
  /\ variant = "part004"
  /\ reqs[s].kind = "initialize" /\ reqs[s].pc = "goto"
  /\ \E ok \in BOOLEAN :
       IF ok /\ Usable(reqs[s].pg) /\ globalPage # 0
       THEN /\ loaded' = loaded \cup {reqs[s].pg}
            /\ SetReq(s, [reqs[s] EXCEPT !.pc = "probe", !.pg = globalPage])
            /\ ret' = NoRet
            /\ UNCHANGED <<session, monitors, qrMonitoringIntervalId>>
       ELSE /\ initializeFailedP4(s, isWhatsAppReady)
            /\ UNCHANGED loaded
  /\ UNCHANGED <<variant, job, alive, closing, pageOf, open, authed, ticks, calls, fires,
                 launched, loginSeen>>

\* checkLoginStatus returned: logged in and waiting for the interface, or
\* extractQRCode is issued.
InitializeProbeP4(s) ==
  /\ variant = "part004"
  /\ reqs[s].kind = "initialize" /\ reqs[s].pc = "probe"
  /\ IF checkLoginStatus(reqs[s].pg)
     THEN /\ isLoggedIn' = TRUE /\ isWhatsAppReady' = FALSE
          /\ SetReq(s, [reqs[s] EXCEPT !.pc = "readywait", !.pg = globalPage])
     ELSE /\ SetReq(s, [reqs[s] EXCEPT !.pc = "extract", !.pg = globalPage])
          /\ UNCHANGED <<isLoggedIn, isWhatsAppReady>>
  /\ ret' = NoRet
  /\ UNCHANGED <<variant, job, globalBrowser, globalPage, qrMonitoringIntervalId, world,
                 monitors, ticks, calls, fires, launched, loginSeen>>

\* waitForWhatsAppReady returned or threw inside initializeWhatsApp.
InitializeReadyP4(s) ==
  /\ variant = "part004"
  /\ reqs[s].kind = "initialize" /\ reqs[s].pc = "readywait"
  /\ \E found \in {FALSE, checkLoginStatus(reqs[s].pg)} :
       IF found
       THEN /\ isWhatsAppReady' = TRUE
            /\ SetReq(s, Idle)
            /\ ret' = [Reply("initialize", "loggedIn") EXCEPT
                         !.loggedIn = TRUE, !.solo = reqs[s].solo]
            /\ UNCHANGED <<globalBrowser, globalPage, isLoggedIn, monitors,
                           qrMonitoringIntervalId>>
       ELSE initializeFailedP4(s, FALSE)
  /\ UNCHANGED <<variant, job, world, ticks, calls, fires, launched, loginSeen>>

\* extractQRCode returned: the monitor is started and the QR code returned;
\* after a first failure the page is reloaded and extraction tried once more.
InitializeExtractP4(s) ==
  /\ variant = "part004"
  /\ reqs[s].kind = "initialize" /\ reqs[s].pc \in {"extract", "retry"}
  /\ \E qr \in ExtractionsP4(reqs[s].pg) :
       IF qr.success
       THEN /\ monitorQRScanCompletionP4
            /\ SetReq(s, Idle)
            /\ ret' = [Reply("initialize", "qr") EXCEPT !.qrLen = qr.qrLen,
                                                       !.solo = reqs[s].solo]
            /\ UNCHANGED session
       ELSE IF reqs[s].pc = "extract" /\ globalPage # 0
            THEN /\ SetReq(s, [reqs[s] EXCEPT !.pc = "retry", !.pg = globalPage])
                 /\ ret' = NoRet
                 /\ UNCHANGED <<session, monitors, qrMonitoringIntervalId>>
            ELSE initializeFailedP4(s, isWhatsAppReady)
  /\ UNCHANGED <<variant, job, world, ticks, calls, fires, launched, loginSeen>>

\* cleanup(): the timer is cleared, browser.close() issued on a connected
\* browser; the finally block resets the session whatever happened.
CloseCallP4(s) ==
  /\ variant = "part004"
  /\ FreeSlot(s) /\ calls < MaxCalls
  /\ calls' = calls + 1
  /\ qrMonitoringIntervalId' = 0
  /\ IF globalBrowser # 0 /\ isConnected(globalBrowser)
     THEN /\ StartReq(s, cleanupIssued([Idle EXCEPT !.kind = "close"]))
          /\ ret' = NoRet
          /\ monitors' = stopped(monitors)
          /\ UNCHANGED session
     ELSE /\ resetSession
          /\ ret' = Reply("close", "closed")
          /\ monitors' = closeReturned(stopped(monitors))
          /\ UNCHANGED reqs
  /\ loginSeen' = FALSE
  /\ UNCHANGED <<variant, job, world, ticks, fires, launched>>

\* The 'disconnected' handler of browser b runs cleanup(): it clears the
\* timer and closes whichever connected browser globalBrowser holds by now.
onDisconnected(b) ==
  /\ qrMonitoringIntervalId' = 0
  /\ closing' = (closing \ {b}) \cup
       (IF globalBrowser \notin {0, b} /\ isConnected(globalBrowser)
        THEN {globalBrowser} ELSE {})

\* browser.close() returned or threw in cleanup().
CleanupDoneP4(s) ==
  /\ variant = "part004"
  /\ reqs[s].pc = "closing"
  /\ \E ok \in BOOLEAN :
       IF ok /\ isConnected(reqs[s].br)
       THEN /\ alive' = alive \ {reqs[s].br}
            /\ onDisconnected(reqs[s].br)
            /\ monitors' = closeReturned(stopped(monitors))
       ELSE /\ monitors' = closeReturned(monitors)
            /\ UNCHANGED <<alive, closing, qrMonitoringIntervalId>>
  /\ resetSession
  /\ SetReq(s, Idle)
  /\ ret' = Reply("close", "closed")
  /\ loginSeen' = FALSE
  /\ UNCHANGED <<variant, job, pageOf, open, loaded, authed, ticks, calls, fires,
                 launched>>

\* browser.close() returned or threw in the cleanup() a 'disconnected'
\* handler started.
DisconnectedCleanupDone(b) ==
  /\ b \in closing
  /\ \E ok \in BOOLEAN :
       IF ok /\ isConnected(b)
       THEN /\ alive' = alive \ {b}
            /\ onDisconnected(b)
            /\ monitors' = stopped(monitors)
       ELSE /\ closing' = closing \ {b}
            /\ UNCHANGED <<alive, monitors, qrMonitoringIntervalId>>
  /\ resetSession
  /\ ret' = NoRet
  /\ loginSeen' = FALSE
  /\ UNCHANGED <<variant, job, pageOf, open, loaded, authed, ticks, reqs, calls, fires,
                 launched>>

\* POST /send-message and POST /send-messages: the route refuses a session
\* that is not logged in and ready.
SendCallP4(s, kind, n) ==
  /\ variant = "part004"
  /\ FreeSlot(s) /\ calls < MaxCalls
  /\ calls' = calls + 1
  /\ IF globalBrowser = 0 \/ globalPage = 0 \/ ~isLoggedIn \/ ~isWhatsAppReady
     THEN ret' = Reply(kind, "notReady") /\ UNCHANGED reqs
     ELSE /\ StartReq(s, sendIssued([Idle EXCEPT !.kind = kind, !.left = n]))
          /\ ret' = NoRet
  /\ UNCHANGED <<variant, job, session, qrMonitoringIntervalId, world, monitors, ticks,
                 fires, launched, loginSeen>>

\* POST /refresh-qr
RefreshCallP4(s) ==
  /\ variant = "part004"
  /\ FreeSlot(s) /\ calls < MaxCalls
  /\ calls' = calls + 1
  /\ IF globalBrowser = 0 \/ globalPage = 0 \/ isClosed(globalPage)
     THEN ret' = Reply("refresh", "notInitialized") /\ UNCHANGED reqs
     ELSE IF isLoggedIn
          THEN ret' = Reply("refresh", "alreadyLoggedIn") /\ UNCHANGED reqs
          ELSE /\ Room
               /\ StartReq(s, [Idle EXCEPT !.kind = "refresh", !.pc = "goto",
                                           !.pg = globalPage])
               /\ ret' = NoRet
  /\ UNCHANGED <<variant, job, session, qrMonitoringIntervalId, world, monitors, ticks,
                 fires, launched, loginSeen>>

\* goto returned or threw; after the wait and handleCompatibilityWarnings,
\* extractQRCode is issued.
RefreshGotoP4(s) ==
  /\ variant = "part004"
  /\ reqs[s].kind = "refresh" /\ reqs[s].pc = "goto"
  /\ \E ok \in BOOLEAN :
       IF ok /\ Usable(reqs[s].pg) /\ globalPage # 0
       THEN /\ loaded' = loaded \cup {reqs[s].pg}
            /\ SetReq(s, [reqs[s] EXCEPT !.pc = "extract", !.pg = globalPage])
            /\ ret' = NoRet
       ELSE /\ SetReq(s, Idle) /\ ret' = Reply("refresh", "error")
            /\ UNCHANGED loaded
  /\ UNCHANGED <<variant, job, session, qrMonitoringIntervalId, alive, closing, pageOf,
                 open, authed, monitors, ticks, calls, fires, launched, loginSeen>>

\* extractQRCode returned: on success the monitor is started again.
RefreshExtractP4(s) ==
  /\ variant = "part004"
  /\ reqs[s].kind = "refresh" /\ reqs[s].pc = "extract"
  /\ \E qr \in ExtractionsP4(reqs[s].pg) :
       IF qr.success
       THEN /\ ret' = [Reply("refresh", "qr") EXCEPT !.qrLen = qr.qrLen]
            /\ IF ~isLoggedIn THEN monitorQRScanCompletionP4
                              ELSE UNCHANGED <<monitors, qrMonitoringIntervalId>>
       ELSE /\ ret' = Reply("refresh", "error")
            /\ UNCHANGED <<monitors, qrMonitoringIntervalId>>
  /\ SetReq(s, Idle)
  /\ UNCHANGED <<variant, job, session, world, ticks, calls, fires, launched, loginSeen>>

\* GET /status
GetStatusP4 ==
  /\ variant = "part004"
  /\ ret' = [Reply("status", "ok") EXCEPT
               !.browserActive = (globalBrowser # 0 /\ isConnected(globalBrowser)),
               !.pageActive = (globalPage # 0 /\ ~isClosed(globalPage)),
               !.loggedIn = isLoggedIn,
               !.ready = isWhatsAppReady,
               !.monitoring = (qrMonitoringIntervalId # 0),
               !.solo = afterSoloQr]
  /\ calls < MaxCalls /\ calls' = calls + 1
  /\ UNCHANGED <<variant, job, session, qrMonitoringIntervalId, world, monitors, ticks,
                 reqs, fires, launched, loginSeen>>

\* The timer fires: the callback runs to its first await.
TickFireP4(t, m) ==
  /\ variant = "part004"
  /\ FreeTick(t) /\ monitors[m].st = "active" /\ fires < MaxFires
  /\ fires' = fires + 1
  /\ IF globalBrowser = 0 \/ globalPage = 0 \/ isClosed(globalPage) \/ isLoggedIn
     THEN stopMonitoring /\ UNCHANGED ticks
     ELSE /\ SetTick(t, [IdleTick EXCEPT !.pc = "valid", !.mon = m, !.pg = globalPage])
          /\ UNCHANGED <<monitors, qrMonitoringIntervalId>>
  /\ ret' = NoRet
  /\ UNCHANGED <<variant, job, session, world, reqs, calls, launched, loginSeen>>

\* globalPage.evaluate(() => true) returned.
TickValidP4(t) ==
  /\ variant = "part004"
  /\ ticks[t].pc = "valid"
  /\ IF Usable(ticks[t].pg)
     THEN /\ SetTick(t, [ticks[t] EXCEPT !.pc = "probe", !.pg = globalPage])
          /\ UNCHANGED <<monitors, qrMonitoringIntervalId>>
     ELSE /\ stopMonitoring
          /\ SetTick(t, IdleTick)
  /\ ret' = NoRet
  /\ UNCHANGED <<variant, job, session, world, reqs, calls, fires, launched, loginSeen>>

\* checkLoginStatus returned: login ends the monitor and starts a detached
\* waitForWhatsAppReady, which the tick's place keeps; else the QR canvas is
\* looked for.
TickProbeP4(t) ==
  /\ variant = "part004"
  /\ ticks[t].pc = "probe"
  /\ IF checkLoginStatus(ticks[t].pg)
     THEN /\ isLoggedIn' = TRUE
          /\ stopMonitoring
          /\ IF globalPage = 0 \/ isClosed(globalPage)
             THEN isWhatsAppReady' = FALSE /\ SetTick(t, IdleTick)
             ELSE /\ SetTick(t, [ticks[t] EXCEPT !.pc = "readywait", !.pg = globalPage])
                  /\ UNCHANGED isWhatsAppReady
          /\ loginSeen' = TRUE
     ELSE /\ SetTick(t, [ticks[t] EXCEPT !.pc = "qrvis", !.pg = globalPage])
          /\ UNCHANGED <<isLoggedIn, isWhatsAppReady, monitors, qrMonitoringIntervalId,
                         loginSeen>>
  /\ ret' = NoRet
  /\ UNCHANGED <<variant, job, globalBrowser, globalPage, world, reqs, calls, fires,
                 launched>>

\* The detached waitForWhatsAppReady returned or threw.
TickReadyP4(t) ==
  /\ variant = "part004"
  /\ ticks[t].pc = "readywait"
  /\ \E found \in {FALSE, checkLoginStatus(ticks[t].pg)} : isWhatsAppReady' = found
  /\ SetTick(t, IdleTick)
  /\ ret' = NoRet
  /\ UNCHANGED <<variant, job, globalBrowser, globalPage, isLoggedIn, qrMonitoringIntervalId,
                 world, monitors, reqs, calls, fires, launched, loginSeen>>

\* The end of a tick whose currentTime - monitoringStartTime exceeds the
\* maximum window (expired): the current timer is cleared and nothing else.
tickTimeoutP4(mons, expired) ==
  IF expired /\ qrMonitoringIntervalId # 0
  THEN [mons EXCEPT ![qrMonitoringIntervalId].st = "expired"]
  ELSE mons

\* qrCanvas.isVisible returned: the page is reloaded when no refresh is in
\* progress and the QR code is gone or older than the refresh interval; else
\* the maximum window is checked.
TickQrVisP4(t) ==
  /\ variant = "part004"
  /\ ticks[t].pc = "qrvis"
  /\ LET m == ticks[t].mon IN
     \E stale \in BOOLEAN :
       IF ~monitors[m].qrRefreshInProgress /\ (~QRPresent(ticks[t].pg) \/ stale)
       THEN /\ monitors' = [monitors EXCEPT ![m].qrRefreshInProgress = TRUE]
            /\ SetTick(t, [ticks[t] EXCEPT !.pc = "reload", !.pg = globalPage])
            /\ UNCHANGED qrMonitoringIntervalId
       ELSE \E expired \in BOOLEAN :
            /\ monitors' = tickTimeoutP4(monitors, expired)
            /\ qrMonitoringIntervalId' = IF expired THEN 0 ELSE qrMonitoringIntervalId
            /\ SetTick(t, IdleTick)
  /\ ret' = NoRet
  /\ UNCHANGED <<variant, job, session, world, reqs, calls, fires, launched, loginSeen>>

\* reload, the wait, handleCompatibilityWarnings and extractQRCode returned
\* (or threw, which is logged); then the maximum window is checked.
TickReloadP4(t) ==
  /\ variant = "part004"
  /\ ticks[t].pc = "reload"
  /\ \E expired \in BOOLEAN :
       /\ monitors' = tickTimeoutP4(
            [monitors EXCEPT ![ticks[t].mon].qrRefreshInProgress = FALSE], expired)
       /\ qrMonitoringIntervalId' = IF expired THEN 0 ELSE qrMonitoringIntervalId
  /\ SetTick(t, IdleTick)
  /\ ret' = NoRet
  /\ UNCHANGED <<variant, job, session, world, reqs, calls, fires, launched, loginSeen>>

\* ------------------------------------------------------- the environment
\* The user links the device: the QR code a loaded page shows is scanned.
UserScans(b) ==
  /\ b \in alive /\ b \notin authed
  /\ \E p \in PagesOf(b) : p \in open /\ p \in loaded
  /\ authed' = authed \cup {b}
  /\ ret' = NoRet
  /\ UNCHANGED <<variant, job, session, qrMonitoringIntervalId, alive, closing, pageOf,
                 open, loaded, monitors, ticks, reqs, calls, fires, launched, loginSeen>>

\* The browser process of b dies, or its connection drops; of the browsers,
\* the one the session holds is followed.  part_004
\* registered a 'disconnected' handler on every browser it launched, and it
\* runs cleanup(): the timer is cleared, a connected browser globalBrowser
\* holds by now is closed, and the finally block resets the session (at
\* once when there is nothing to close).  index.js registered no handler.
BrowserDisconnects(b) ==
  /\ b \in alive
  /\ alive' = alive \ {b}
  /\ IF variant = "part004"
     THEN /\ monitors' = stopped(monitors)
          /\ qrMonitoringIntervalId' = 0
          /\ IF globalBrowser \notin {0, b} /\ isConnected(globalBrowser)
             THEN closing' = closing \cup {globalBrowser} /\ UNCHANGED session
             ELSE resetSession /\ UNCHANGED closing
     ELSE UNCHANGED <<session, monitors, qrMonitoringIntervalId, closing>>
  /\ loginSeen' = FALSE
  /\ ret' = NoRet
  /\ UNCHANGED <<variant, job, pageOf, open, loaded, authed, ticks, reqs, calls, fires,
                 launched>>

\* The renderer of page p crashes, or the page is closed from outside; of the
\* pages, the one the session holds is followed.  No variant listens to the
\* page's events.
PageCrashes(p) ==
  /\ Usable(p)
  /\ open' = open \ {p}
  /\ ret' = NoRet
  /\ UNCHANGED <<variant, job, session, qrMonitoringIntervalId, alive, closing, pageOf,
                 loaded, authed, monitors, ticks, reqs, calls, fires, launched,
                 loginSeen>>

Next ==
  \/ \E s \in Slots : InitializeCall(s)
  \/ \E s \in Slots : InitializeLaunch(s)
  \/ \E s \in Slots : InitializeNewPage(s)
  \/ \E s \in Slots : InitializeGoto(s)
  \/ \E s \in Slots : InitializeProbe(s)
  \/ \E s \in Slots : InitializeExtract(s)
  \/ \E s \in Slots : CleanupDone(s)
  \/ \E s \in Slots : CloseCall(s)
  \/ GetStatus
  \/ \E s \in Slots : SendCall(s, "send", 1)
  \/ \E s \in Slots, n \in 1..MaxItems : SendCall(s, "bulk", n)
  \/ \E s \in Slots : SendReady(s)
  \/ \E s \in Slots : SendNav(s)
  \/ \E s \in Slots : SendResolve(s)
  \/ \E s \in Slots : SendType(s)
  \/ \E s \in Slots : SendSubmit(s)
  \/ \E s \in Slots : BulkNext(s)
  \/ \E s \in Slots : RefreshCall(s)
  \/ \E s \in Slots : RefreshReload(s)
  \/ \E s \in Slots : RefreshExtract(s)
  \/ \E t \in TickSlots, m \in Monitors : TickFire(t, m)
  \/ \E t \in TickSlots : TickValid(t)
  \/ \E t \in TickSlots : TickProbe(t)
  \/ \E t \in TickSlots : TickReload(t)
  \/ \E t \in TickSlots : TickQrCheck(t)
  \/ \E t \in TickSlots : TickReloadQr(t)
  \/ \E b \in Browsers : UserScans(b)
  \/ \E s \in Slots : InitializeCallP4(s)
  \/ \E s \in Slots : InitializePageCloseP4(s)
  \/ \E s \in Slots : InitializeLaunchP4(s)
  \/ \E s \in Slots : InitializeNewContextP4(s)
  \/ \E s \in Slots : InitializeNewPageP4(s)
  \/ \E s \in Slots : InitializeGotoP4(s)
  \/ \E s \in Slots : InitializeProbeP4(s)
  \/ \E s \in Slots : InitializeReadyP4(s)
  \/ \E s \in Slots : InitializeExtractP4(s)
  \/ \E s \in Slots : CloseCallP4(s)
  \/ \E s \in Slots : CleanupDoneP4(s)
  \/ \E b \in Browsers : DisconnectedCleanupDone(b)
  \/ \E s \in Slots : SendCallP4(s, "send", 1)
  \/ \E s \in Slots, n \in 1..MaxItems : SendCallP4(s, "bulk", n)
  \/ \E s \in Slots : RefreshCallP4(s)
  \/ \E s \in Slots : RefreshGotoP4(s)
  \/ \E s \in Slots : RefreshExtractP4(s)
  \/ GetStatusP4
  \/ \E t \in TickSlots, m \in Monitors : TickFireP4(t, m)
  \/ \E t \in TickSlots : TickValidP4(t)
  \/ \E t \in TickSlots : TickProbeP4(t)
  \/ \E t \in TickSlots : TickReadyP4(t)
  \/ \E t \in TickSlots : TickQrVisP4(t)
  \/ \E t \in TickSlots : TickReloadP4(t)

Spec == Init /\ [][Next]_vars

\* The server of either variant in an environment that may lose the
\* automation surface and that issues initialize, status and single send
\* requests, one at a time.
NextLoss ==
  \/ BrowserDisconnects(globalBrowser)
  \/ PageCrashes(globalPage)
  \/ Busy = {} /\ \E s \in Slots : InitializeCall(s)
  \/ \E s \in Slots : InitializeLaunch(s)
  \/ \E s \in Slots : InitializeNewPage(s)
  \/ \E s \in Slots : InitializeGoto(s)
  \/ \E s \in Slots : InitializeProbe(s)
  \/ \E s \in Slots : InitializeExtract(s)
  \/ \E s \in Slots : CleanupDone(s)
  \/ Busy = {} /\ GetStatus
  \/ Busy = {} /\ \E s \in Slots : SendCall(s, "send", 1)
  \/ \E s \in Slots : SendReady(s)
  \/ \E s \in Slots : SendNav(s)
  \/ \E s \in Slots : SendResolve(s)
  \/ \E s \in Slots : SendType(s)
  \/ \E s \in Slots : SendSubmit(s)
  \/ \E t \in TickSlots, m \in Monitors : TickFire(t, m)
  \/ \E t \in TickSlots : TickValid(t)
  \/ \E t \in TickSlots : TickProbe(t)
  \/ \E t \in TickSlots : TickReload(t)
  \/ \E t \in TickSlots : TickQrCheck(t)
  \/ \E t \in TickSlots : TickReloadQr(t)
  \/ \E b \in Browsers : UserScans(b)
  \/ Busy = {} /\ \E s \in Slots : InitializeCallP4(s)
  \/ \E s \in Slots : InitializePageCloseP4(s)
  \/ \E s \in Slots : InitializeLaunchP4(s)
  \/ \E s \in Slots : InitializeNewContextP4(s)
  \/ \E s \in Slots : InitializeNewPageP4(s)
  \/ \E s \in Slots : InitializeGotoP4(s)
  \/ \E s \in Slots : InitializeProbeP4(s)
  \/ \E s \in Slots : InitializeReadyP4(s)
  \/ \E s \in Slots : InitializeExtractP4(s)
  \/ Busy = {} /\ \E s \in Slots : SendCallP4(s, "send", 1)
  \/ Busy = {} /\ GetStatusP4
  \/ \E t \in TickSlots, m \in Monitors : TickFireP4(t, m)
  \/ \E t \in TickSlots : TickValidP4(t)
  \/ \E t \in TickSlots : TickProbeP4(t)
  \/ \E t \in TickSlots : TickReadyP4(t)
  \/ \E t \in TickSlots : TickQrVisP4(t)
  \/ \E t \in TickSlots : TickReloadP4(t)

SpecLoss == Init /\ [][NextLoss]_vars

\* ===================================================== message contents
\* A string is the sequence of its characters.
NL == <<"\n">>
Texts == {<<>>, <<"a">>, <<" ">>, <<"b", "c">>}

\* String.prototype.trim for the whitespace of Texts.
RECURSIVE trimStart(_)
trimStart(str) ==
  IF str # <<>> /\ Head(str) \in {" ", "\n"} THEN trimStart(Tail(str)) ELSE str

RECURSIVE trimEnd(_)
trimEnd(str) ==
  IF str # <<>> /\ str[Len(str)] \in {" ", "\n"}
  THEN trimEnd(SubSeq(str, 1, Len(str) - 1))
  ELSE str

trim(str) == trimEnd(trimStart(str))

\* combinedContent of sendCombinedMessage (index.js, part_004): each part that
\* is not the empty string is appended, after a newline when something
\* precedes it.
combinedContent(mediaUrl, caption, message) ==
  LET c1 == IF mediaUrl # <<>> THEN mediaUrl ELSE <<>>
      c2 == IF caption # <<>>
            THEN c1 \o (IF c1 # <<>> THEN NL \o caption ELSE caption)
            ELSE c1
  IN IF message # <<>>
     THEN c2 \o (IF c2 # <<>> THEN NL \o message ELSE message)
     ELSE c2

\* completeMessage of sendSingleMessage (part_005): the message, then the
\* caption and the link, each after two newlines.
completeMessage(message, caption, link) ==
  LET m1 == IF caption # <<>> THEN message \o NL \o NL \o caption ELSE message
  IN IF link # <<>> THEN m1 \o NL \o NL \o link ELSE m1

\* What the routes ask of the contents before they call the send function:
\* index.js (!message && !mediaUrl refused), part_004 (the same of the
\* trimmed strings), part_005 (!message refused).
contentGiven(message, mediaUrl) == message # <<>> \/ mediaUrl # <<>>
contentGivenP4(message, mediaUrl) == trim(message) # <<>> \/ trim(mediaUrl) # <<>>
contentGivenP5(message) == message # <<>>

\* The composition of a variant applied to the parts of a request.
ComposeJob(message, mediaUrl, caption) ==
  [NoJob EXCEPT !.route = "compose", !.pc = "start",
                !.items = <<[message |-> message, mediaUrl |-> mediaUrl,
                             caption |-> caption]>>]

InitCompose ==
  /\ variant \in {"index", "part004", "part005"}
  /\ InitSession
  /\ \E message \in Texts, mediaUrl \in Texts, caption \in Texts :
       /\ variant = "index" => contentGiven(message, mediaUrl)
       /\ variant = "part004" => contentGivenP4(message, mediaUrl)
       /\ variant = "part005" => contentGivenP5(message)
       /\ job = ComposeJob(message, mediaUrl, caption)

Compose ==
  /\ job.route = "compose" /\ job.pc = "start"
  /\ LET it == job.items[1] IN
     job' = [job EXCEPT
       !.pc = "done",
       !.content = IF variant = "part005"
                   THEN completeMessage(it.message, it.caption, it.mediaUrl)
                   ELSE combinedContent(it.mediaUrl, it.caption, it.message)]
  /\ UNCHANGED <<variant, session, qrMonitoringIntervalId, world, monitors, ticks,
                 reqs, calls, fires, launched, ret, loginSeen>>

SpecCompose == InitCompose /\ [][Compose]_vars

\* ============================================ the send routes in detail
\* One request of POST /send-message or POST /send-messages is followed from
\* its body to its response, with the contents of its items.

\* Values of `mobile' in a request body.  surface is what the application
\* shows once the chat URL of the number is loaded: the compose box, the
\* invalid-number popup, or neither.
Destinations ==
  { [type |-> "undefined", text |-> <<>>, surface |-> "none"],
    [type |-> "string", text |-> <<>>, surface |-> "none"],
    [type |-> "number", text |-> <<"9">>, surface |-> "chat"],
    [type |-> "string", text |-> <<"9">>, surface |-> "chat"],
    [type |-> "string", text |-> <<"8">>, surface |-> "invalid"],
    [type |-> "string", text |-> <<"7">>, surface |-> "none"] }

Contents ==
  { [message |-> <<>>, mediaUrl |-> <<>>, caption |-> <<>>],
    [message |-> <<>>, mediaUrl |-> <<>>, caption |-> <<"a">>],
    [message |-> <<" ">>, mediaUrl |-> <<>>, caption |-> <<>>],
    [message |-> <<"a">>, mediaUrl |-> <<>>, caption |-> <<>>],
    [message |-> <<"a">>, mediaUrl |-> <<"b", "c">>, caption |-> <<"a">>] }

Items ==
  { [mobile |-> d, message |-> c.message, mediaUrl |-> c.mediaUrl, caption |-> c.caption] :
      d \in Destinations, c \in Contents }

\* !mobile is false: a non-empty string, or a number other than 0.
truthy(mobile) ==
  mobile.type = "number" \/ (mobile.type = "string" /\ mobile.text # <<>>)

\* mobile.replace is a function: of a string only.  Called on anything else
\* it throws a TypeError.
hasReplace(mobile) == mobile.type = "string"

\* A validation that refuses nothing.
requestInvalidNever(item) == FALSE

\* The validation of the routes of index.js.
requestInvalid(item) ==
  ~truthy(item.mobile) \/ ~contentGiven(item.message, item.mediaUrl)

\* The validation of the routes of part_004.
requestInvalidP4(item) ==
  ~truthy(item.mobile) \/ ~contentGivenP4(item.message, item.mediaUrl)

itemInvalid(item) ==
  IF variant = "part004" THEN requestInvalidP4(item) ELSE requestInvalid(item)

\* A list check that accepts the empty list.
batchInvalidNever(whatsapp) == FALSE

\* !whatsapp || !Array.isArray(whatsapp) || whatsapp.length === 0, of a list.
batchInvalid(whatsapp) == Len(whatsapp) = 0

\* The session check of the routes.
sessionMissing ==
  IF variant = "part004"
  THEN globalBrowser = 0 \/ globalPage = 0 \/ ~isLoggedIn \/ ~isWhatsAppReady
  ELSE globalPage = 0 \/ globalBrowser = 0 \/ ~isLoggedIn

Result(success, error) ==
  [success |-> success, error |-> error, pageOps |-> job.pageOps,
   waits |-> job.waits, signal |-> FALSE]

\* res.status(400): the request is refused before anything is sent.
refused(j) == [j EXCEPT !.pc = "done", !.status = 400]

\* The response of POST /send-messages after its loop.
summarised(j, res) ==
  LET successful == Cardinality({k \in 1..Len(res) : res[k].success})
      failed == IF variant = "part004"
                THEN Len(res) - successful
                ELSE Cardinality({k \in 1..Len(res) : ~res[k].success})
  IN [j EXCEPT !.pc = "done", !.status = 200, !.results = res,
               !.summary = <<[total |-> Len(j.items), successful |-> successful,
                              failed |-> failed]>>]

\* A result put in front of the results gathered so far.
unshifted(res, id, r) == <<r @@ [id |-> id]>> \o res

\* results.push({ id, ...result }): the result of an item joins the end of
\* the results under the id of the item, which is taken to be the place of
\* the item in the request.
pushed(res, id, r) == Append(res, r @@ [id |-> id])

\* The loop of POST /send-messages from item k, up to the first await: items
\* the validation refuses get their failure result and the loop goes on; the
\* first other item is handed to sendCombinedMessage; after the last item the
\* summary is sent.
RECURSIVE loop(_, _, _)
loop(j, res, k) ==
  IF k > Len(j.items)
  THEN summarised(j, res)
  ELSE IF itemInvalid(j.items[k])
       THEN loop(j, pushed(res, k, [success |-> FALSE, error |-> "validation",
                                    pageOps |-> 0, waits |-> 0, signal |-> FALSE]), k + 1)
       ELSE [j EXCEPT !.results = res, !.i = k, !.pc = "navigate",
                      !.content = <<>>, !.pageOps = 0, !.waits = 0]

\* A return that goes on to the next item without the pause.
returnedNoDelay(r) ==
  IF job.route = "single"
  THEN [job EXCEPT !.pc = "done", !.status = 200, !.results = <<r>>]
  ELSE loop(job, pushed(job.results, job.i, r), job.i + 1)

\* sendCombinedMessage returned r to its route.
returned(r) ==
  IF job.route = "single"
  THEN [job EXCEPT !.pc = "done", !.status = 200, !.results = <<r>>]
  ELSE IF job.i < Len(job.items)
       THEN [job EXCEPT !.pc = "delay", !.results = pushed(@, job.i, r)]
       ELSE summarised(job, pushed(job.results, job.i, r))

\* sendCombinedMessage threw: the catch block of the route answers 500 and
\* the results gathered so far are dropped.
thrown == [job EXCEPT !.pc = "done", !.status = 500, !.raised = TRUE, !.results = <<>>]

\* The session a request meets: none, a logged-in one that is ready, or such
\* a one whose page has been closed or has crashed.
InitDispatch ==
  /\ variant \in {"index", "part004"}
  /\ \E state \in {"none", "ready", "pageLost"} :
       IF state = "none"
       THEN InitSession
       ELSE /\ globalBrowser = 1 /\ globalPage = 1
            /\ isLoggedIn = TRUE /\ isWhatsAppReady = TRUE
            /\ qrMonitoringIntervalId = 0
            /\ alive = {1} /\ closing = {} /\ pageOf = <<1>>
            /\ open = (IF state = "ready" THEN {1} ELSE {})
            /\ loaded = {1} /\ authed = {1}
            /\ monitors = [m \in Monitors |-> NoMonitor]
            /\ ticks = [t \in TickSlots |-> IdleTick]
            /\ reqs = [s \in Slots |-> Idle]
            /\ calls = 0 /\ fires = 0 /\ launched = 1
            /\ ret = NoRet
            /\ loginSeen = FALSE
  /\ \/ \E item \in Items :
          job = [NoJob EXCEPT !.route = "single", !.pc = "start", !.items = <<item>>]
     \/ \E n \in 0..MaxItems : \E list \in [1..n -> Items] :
          job = [NoJob EXCEPT !.route = "batch", !.pc = "start", !.items = list]

\* POST /send-message up to its first await.
SendMessage ==
  /\ job.route = "single" /\ job.pc = "start"
  /\ job' = IF itemInvalid(job.items[1]) \/ sessionMissing
            THEN refused(job)
            ELSE [job EXCEPT !.i = 1, !.pc = "navigate"]
  /\ UNCHANGED <<variant, session, qrMonitoringIntervalId, world, monitors, ticks,
                 reqs, calls, fires, launched, ret, loginSeen>>

\* POST /send-messages up to its first await.
SendMessages ==
  /\ job.route = "batch" /\ job.pc = "start"
  /\ job' = IF batchInvalid(job.items) \/ sessionMissing
            THEN refused(job)
            ELSE loop(job, <<>>, 1)
  /\ UNCHANGED <<variant, session, qrMonitoringIntervalId, world, monitors, ticks,
                 reqs, calls, fires, launched, ret, loginSeen>>

\* navigateToChat inside sendCombinedMessage.  index.js: handleDialogs, then
\* mobile.replace, goto and the wait for each of the five compose selectors.
\* A TypeError of mobile.replace is caught by navigateToChat, whose catch
\* block calls mobile.replace again, and then by sendCombinedMessage, whose
\* catch block calls it once more: the function throws.
navigateToChat(mobile) ==
  IF ~hasReplace(mobile)
  THEN [thrown EXCEPT !.pageOps = job.pageOps + 1]
  ELSE IF ~Usable(globalPage)
       THEN returned([Result(FALSE, "navigation") EXCEPT !.pageOps = job.pageOps + 2])
       ELSE IF mobile.surface = "chat"
            THEN [job EXCEPT !.pc = "compose", !.pageOps = @ + 3]
            ELSE returned([Result(FALSE, "chatNotFound") EXCEPT
                             !.pageOps = job.pageOps + 3, !.waits = 5])

\* part_004: sendCombinedMessage returns at once without an open page; else
\* handleDialogs, mobile.replace, goto and one wait for the compose box or
\* the invalid-number popup.  The error thrown for the popup is caught by the
\* block that also catches the timeout and replaced by its one message.
navigateToChatP4(mobile) ==
  IF globalPage = 0 \/ isClosed(globalPage)
  THEN returned(Result(FALSE, "pageUnavailable"))
  ELSE IF ~hasReplace(mobile)
       THEN [thrown EXCEPT !.pageOps = job.pageOps + 1]
       ELSE IF mobile.surface = "chat"
            THEN [job EXCEPT !.pc = "compose", !.pageOps = @ + 3]
            ELSE returned([Result(FALSE, "chatNotFound") EXCEPT
                             !.pageOps = job.pageOps + 3,
                             !.waits = IF mobile.surface = "invalid" THEN 0 ELSE 1])

Navigate ==
  /\ job.pc = "navigate"
  /\ job' = IF variant = "part004"
            THEN navigateToChatP4(job.items[job.i].mobile)
            ELSE navigateToChat(job.items[job.i].mobile)
  /\ UNCHANGED <<variant, session, qrMonitoringIntervalId, world, monitors, ticks,
                 reqs, calls, fires, launched, ret, loginSeen>>

\* The compose box is found, clicked and cleared, the content composed and,
\* unless it is empty (part_004: blank), typed.
ComposeAndType ==
  /\ job.pc = "compose"
  /\ LET it == job.items[job.i]
         content == combinedContent(it.mediaUrl, it.caption, it.message)
         empty == IF variant = "part004" THEN trim(content) = <<>> ELSE content = <<>>
     IN job' = IF empty
               THEN returned([Result(FALSE, "noContent") EXCEPT
                                !.pageOps = job.pageOps + 2])
               ELSE [job EXCEPT !.pc = "submit", !.content = content, !.pageOps = @ + 3]
  /\ UNCHANGED <<variant, session, qrMonitoringIntervalId, world, monitors, ticks,
                 reqs, calls, fires, launched, ret, loginSeen>>

\* Enter is pressed (part_004: or the send button clicked) and the fixed wait
\* is over.  Whether the application then shows the message as sent (signal)
\* is not looked at.
Submit ==
  /\ job.pc = "submit"
  /\ \E signal \in BOOLEAN :
       job' = returned([Result(TRUE, "none") EXCEPT !.pageOps = job.pageOps + 1,
                                                     !.signal = signal])
  /\ UNCHANGED <<variant, session, qrMonitoringIntervalId, world, monitors, ticks,
                 reqs, calls, fires, launched, ret, loginSeen>>

\* The pause between two items of POST /send-messages is over.
NextItem ==
  /\ job.pc = "delay"
  /\ job' = loop(job, job.results, job.i + 1)
  /\ UNCHANGED <<variant, session, qrMonitoringIntervalId, world, monitors, ticks,
                 reqs, calls, fires, launched, ret, loginSeen>>

NextDispatch ==
  \/ SendMessage
  \/ SendMessages
  \/ Navigate
  \/ ComposeAndType
  \/ Submit
  \/ NextItem

SpecDispatch == InitDispatch /\ [][NextDispatch]_vars

\* The handler of the request is resumed whenever the operation it awaits
\* has returned or timed out.
SpecDispatchFair == SpecDispatch /\ WF_vars(NextDispatch)


\* ================================================ the message input box
\* The loop of sendCombinedMessage over messageSelectors, on what the page
\* gives for each selector: page.$ returns null (absent), or a handle that
\* isVisible reports visible or hidden or on which isVisible throws
\* (detached), or page.$ itself throws (failed).
MessageSelectors == 5        \* index.js:753-759
MessageSelectorsP7 == 4      \* part_007:920-925
Candidates == {"absent", "visible", "hidden", "detached", "failed"}

\* messageBox after the loop from selector k on, 0 for null: every page.$
\* that returns assigns it, a visible handle breaks the loop, and an
\* exception goes on to the next selector with messageBox as it is.
RECURSIVE messageBox(_, _, _)
messageBox(found, k, box) ==
  IF k > Len(found) THEN box
  ELSE IF found[k] = "failed" THEN messageBox(found, k + 1, box)
  ELSE IF found[k] = "absent" THEN messageBox(found, k + 1, 0)
  ELSE IF found[k] = "visible" THEN k
  ELSE messageBox(found, k + 1, k)

InitFind ==
  /\ variant \in {"index", "part007"}
  /\ InitSession
  /\ \E found \in [1..(IF variant = "index" THEN MessageSelectors
                                           ELSE MessageSelectorsP7) -> Candidates] :
       job = [NoJob EXCEPT !.route = "find", !.pc = "start", !.items = found]

\* sendCombinedMessage from the loop to its result: without a handle it
\* throws 'Message input box not found'; else messageBox.click() is awaited,
\* which throws on a handle that is not visible when its wait for the
\* element ends, and the content is typed after a click that returned.
FindMessageBox ==
  /\ job.route = "find" /\ job.pc = "start"
  /\ LET box == messageBox(job.items, 1, 0) IN
     job' = [job EXCEPT
       !.pc = "done", !.i = box,
       !.results = <<IF box = 0
                     THEN [success |-> FALSE, error |-> "Message input box not found",
                           typed |-> FALSE]
                     ELSE IF job.items[box] = "visible"
                          THEN [success |-> TRUE, error |-> "none", typed |-> TRUE]
                          ELSE [success |-> FALSE, error |-> "click", typed |-> FALSE]>>]
  /\ UNCHANGED <<variant, session, qrMonitoringIntervalId, world, monitors, ticks,
                 reqs, calls, fires, launched, ret, loginSeen>>

SpecFind == InitFind /\ [][FindMessageBox]_vars


\* ======================================================== QR extraction
\* extractQRCode applied to what the page gives: whether the QR element is
\* found, the length of canvas.toDataURL and the size of the element
\* screenshot (a PNG file, never empty), about the thresholds of the two
\* variants.
CanvasLensWide == CanvasLens \cup {1500}
ShotLensWide == (ShotLens \ {0}) \cup {499, 500, 600, 732, 733}

InitExtract ==
  /\ variant \in {"index", "part004"}
  /\ InitSession
  /\ \E found \in BOOLEAN, canvasLen \in CanvasLensWide, shotLen \in ShotLensWide :
       job = [NoJob EXCEPT !.route = "extract", !.pc = "start",
                !.items = <<[found |-> found, canvasLen |-> canvasLen,
                             shotLen |-> shotLen]>>]

Extract ==
  /\ job.route = "extract" /\ job.pc = "start"
  /\ LET in == job.items[1] IN
     job' = [job EXCEPT
       !.pc = "done",
       !.results = <<IF variant = "part004"
                     THEN extractQRCodeP4(in.found, in.canvasLen, in.shotLen)
                     ELSE extractQRCode(in.found, in.canvasLen, in.shotLen)>>]
  /\ UNCHANGED <<variant, session, qrMonitoringIntervalId, world, monitors, ticks,
                 reqs, calls, fires, launched, ret, loginSeen>>

SpecExtract == InitExtract /\ [][Extract]_vars

\* ================================================== QR refresh and time
\* The credentials one session hands out, with their timestamps: the
\* extraction of initialize, then POST /refresh-qr requests one after the
\* other.  Time is counted in half milliseconds and never runs backwards.
HalfMs == 2

\* page.waitForTimeout(ms) that does not wait.
waitForTimeoutNone(ms) == 0

\* page.waitForTimeout(ms): the time it takes at least.
waitForTimeout(ms) == ms * HalfMs

\* new Date().toISOString(): the time cut to the millisecond; the strings
\* are ordered as the milliseconds are.
toISOString(t) == t \div HalfMs

\* What a step takes beyond its waits.
Jitter == {0, 1}

InitRefresh ==
  /\ variant = "index"
  /\ globalBrowser = 1 /\ globalPage = 1
  /\ isLoggedIn = FALSE /\ isWhatsAppReady = FALSE
  /\ qrMonitoringIntervalId = 0
  /\ alive = {1} /\ closing = {} /\ pageOf = <<1>> /\ open = {1} /\ loaded = {1}
  /\ authed = {}
  /\ monitors = [m \in Monitors |-> NoMonitor]
  /\ ticks = [t \in TickSlots |-> IdleTick]
  /\ reqs = [s \in Slots |-> Idle]
  /\ calls = 0 /\ fires = 0 /\ launched = 1
  /\ ret = NoRet
  /\ loginSeen = FALSE
  /\ \E isCloud \in BOOLEAN, t \in Jitter :
       job = [NoJob EXCEPT !.route = "qr", !.pc = "extract", !.now = t,
                           !.items = <<[isCloud |-> isCloud]>>]

\* POST /refresh-qr up to its first await: reload is issued.
RefreshQr ==
  /\ job.route = "qr" /\ job.pc = "idle" /\ job.i < MaxRefreshes
  /\ \E d \in Jitter :
       job' = [job EXCEPT !.pc = "reload", !.i = @ + 1, !.now = @ + d]
  /\ UNCHANGED <<variant, session, qrMonitoringIntervalId, world, monitors, ticks,
                 reqs, calls, fires, launched, ret, loginSeen>>

\* reload, waitForTimeout(15000) and handleCompatibilityWarnings returned and
\* extractQRCode is called, or one of them threw and the route answers 500.
Reloaded ==
  /\ job.route = "qr" /\ job.pc = "reload"
  /\ \E d \in Jitter, ok \in BOOLEAN :
       job' = IF ok
              THEN [job EXCEPT !.pc = "extract", !.now = @ + waitForTimeout(15000) + d]
              ELSE [job EXCEPT !.pc = "idle", !.now = @ + d]
  /\ UNCHANGED <<variant, session, qrMonitoringIntervalId, world, monitors, ticks,
                 reqs, calls, fires, launched, ret, loginSeen>>

\* extractQRCode returned: after its settle wait (6000 or 12000) and the
\* waitForTimeout(3000) before the serialization a credential is stamped, or
\* the extraction failed on the way.
Extracted ==
  /\ job.route = "qr" /\ job.pc = "extract"
  /\ \E d \in Jitter, ok \in BOOLEAN :
       LET settle == waitForTimeout(IF job.items[1].isCloud THEN 12000 ELSE 6000)
           t == job.now + settle + waitForTimeout(3000) + d
       IN job' = IF ok
                 THEN [job EXCEPT !.pc = "idle", !.now = t,
                         !.results = Append(@, [success |-> TRUE,
                                                issuedAt |-> toISOString(t)])]
                 ELSE [job EXCEPT !.pc = "idle", !.now = @ + settle + d]
  /\ UNCHANGED <<variant, session, qrMonitoringIntervalId, world, monitors, ticks,
                 reqs, calls, fires, launched, ret, loginSeen>>

NextRefresh ==
  \/ RefreshQr
  \/ Reloaded
  \/ Extracted

SpecRefresh == InitRefresh /\ [][NextRefresh]_vars

\* ===================================================== waiting for ready
\* One dispatch of index.js from the readiness test of navigateToChat to its
\* result, with the time.  job.i is startTime, job.waits the rounds of the
\* loop started, job.content the time the last round started.

\* Date.now(): the time in whole milliseconds.
DateNow(t) == t \div HalfMs

\* maxWaitTime of waitForWhatsAppReady, in milliseconds.
maxWaitTime(isCloud) == IF isCloud THEN 45000 ELSE 25000

\* The session is logged in, with the ready flag set or not and the page
\* alive or not.
InitReady ==
  /\ variant = "index"
  /\ globalBrowser = 1 /\ globalPage = 1
  /\ isLoggedIn = TRUE /\ isWhatsAppReady \in BOOLEAN
  /\ qrMonitoringIntervalId = 0
  /\ alive = {1} /\ closing = {} /\ pageOf = <<1>> /\ open \in {{1}, {}}
  /\ loaded = {1} /\ authed = {1}
  /\ monitors = [m \in Monitors |-> NoMonitor]
  /\ ticks = [t \in TickSlots |-> IdleTick]
  /\ reqs = [s \in Slots |-> Idle]
  /\ calls = 0 /\ fires = 0 /\ launched = 1
  /\ ret = NoRet
  /\ loginSeen = FALSE
  /\ \E isCloud \in BOOLEAN, t \in Jitter :
       job = [NoJob EXCEPT !.route = "ready", !.pc = "start", !.now = t,
                           !.items = <<[isCloud |-> isCloud,
                                        wasReady |-> isWhatsAppReady]>>]

\* The test of the while loop of waitForWhatsAppReady at time t: another
\* round is started, or the error is thrown, which navigateToChat rethrows
\* and sendCombinedMessage turns into its failure result.
round(j, t) ==
  IF DateNow(t) - j.i < maxWaitTime(j.items[1].isCloud)
  THEN [j EXCEPT !.pc = "poll", !.now = t, !.waits = @ + 1, !.content = <<t>>]
  ELSE [j EXCEPT !.pc = "done", !.now = t,
                 !.results = <<[success |-> FALSE, error |-> "notReady"]>>]

\* A waitForWhatsAppReady that throws without looking at the page.
waitForWhatsAppReadyThrows(j) ==
  [j EXCEPT !.pc = "done", !.i = DateNow(j.now),
            !.results = <<[success |-> FALSE, error |-> "notReady"]>>]

\* waitForWhatsAppReady up to its first await.
waitForWhatsAppReady(j) == round([j EXCEPT !.i = DateNow(j.now)], j.now)

\* navigateToChat up to its first await.
NavigateToChat ==
  /\ job.route = "ready" /\ job.pc = "start"
  /\ job' = IF ~isWhatsAppReady
            THEN waitForWhatsAppReady(job)
            ELSE [job EXCEPT !.pc = "proceed"]
  /\ UNCHANGED <<variant, session, qrMonitoringIntervalId, world, monitors, ticks,
                 reqs, calls, fires, launched, ret, loginSeen>>

\* The page validity test and the four selector tests of a round returned: a
\* destroyed page ends the wait with an error; a visible landmark (seen)
\* leads to the settle wait, none to the pause before the next round.
Polled ==
  /\ job.route = "ready" /\ job.pc = "poll"
  /\ \E d \in Jitter, seen \in BOOLEAN :
       job' = IF ~Usable(globalPage)
              THEN [job EXCEPT !.pc = "done", !.now = @ + d,
                      !.results = <<[success |-> FALSE, error |-> "pageDestroyed"]>>]
              ELSE [job EXCEPT !.pc = IF seen THEN "settle" ELSE "pause", !.now = @ + d]
  /\ UNCHANGED <<variant, session, qrMonitoringIntervalId, world, monitors, ticks,
                 reqs, calls, fires, launched, ret, loginSeen>>

\* waitForTimeout(3000) after a landmark was seen is over: the flag is set
\* and navigateToChat goes on.
Settled ==
  /\ job.route = "ready" /\ job.pc = "settle"
  /\ \E d \in Jitter :
       job' = [job EXCEPT !.pc = "proceed", !.now = @ + waitForTimeout(3000) + d]
  /\ isWhatsAppReady' = TRUE
  /\ UNCHANGED <<variant, globalBrowser, globalPage, isLoggedIn, qrMonitoringIntervalId,
                 world, monitors, ticks, reqs, calls, fires, launched, ret, loginSeen>>

\* waitForTimeout(3000) at the end of a round without a landmark is over.
Paused ==
  /\ job.route = "ready" /\ job.pc = "pause"
  /\ \E d \in Jitter : job' = round(job, job.now + waitForTimeout(3000) + d)
  /\ UNCHANGED <<variant, session, qrMonitoringIntervalId, world, monitors, ticks,
                 reqs, calls, fires, launched, ret, loginSeen>>

\* The rest of the dispatch, from handleDialogs on, returned its result.
Proceeded ==
  /\ job.route = "ready" /\ job.pc = "proceed"
  /\ \E d \in Jitter, ok \in BOOLEAN :
       job' = [job EXCEPT !.pc = "done", !.now = @ + d,
                 !.results = <<[success |-> ok /\ Usable(globalPage),
                                error |-> IF ok /\ Usable(globalPage) THEN "none"
                                                                      ELSE "send"]>>]
  /\ UNCHANGED <<variant, session, qrMonitoringIntervalId, world, monitors, ticks,
                 reqs, calls, fires, launched, ret, loginSeen>>

NextReady ==
  \/ NavigateToChat
  \/ Polled
  \/ Settled
  \/ Paused
  \/ Proceeded

SpecReady == InitReady /\ [][NextReady]_vars


\* ================================================== the monitor and a scan
\* A session that waits for the scan, as initialize leaves it: the page
\* shows the QR code and the timer is set.
AwaitingScan ==
  /\ globalBrowser = 1 /\ globalPage = 1
  /\ isLoggedIn = FALSE /\ isWhatsAppReady = FALSE
  /\ qrMonitoringIntervalId = (IF variant = "part004" THEN 1 ELSE 0)
  /\ alive = {1} /\ closing = {} /\ pageOf = <<1>> /\ open = {1} /\ loaded = {1}
  /\ authed = {}
  /\ monitors = [m \in Monitors |->
       IF m = 1 THEN [NoMonitor EXCEPT !.st = "active", !.browser = 1] ELSE NoMonitor]
  /\ ticks = [t \in TickSlots |-> IdleTick]
  /\ reqs = [s \in Slots |-> Idle]
  /\ calls = 1 /\ fires = 0 /\ launched = 1
  /\ ret = NoRet
  /\ loginSeen = FALSE

\* The page stays alive, no request arrives, and the user may scan.
InitScan ==
  /\ variant \in {"index", "part004"}
  /\ AwaitingScan
  /\ job = NoJob

\* The steps of the timer and of its callbacks.
NextTick ==
  \/ \E t \in TickSlots, m \in Monitors : TickFire(t, m)
  \/ \E t \in TickSlots : TickValid(t)
  \/ \E t \in TickSlots : TickProbe(t)
  \/ \E t \in TickSlots : TickReload(t)
  \/ \E t \in TickSlots : TickQrCheck(t)
  \/ \E t \in TickSlots : TickReloadQr(t)
  \/ \E t \in TickSlots, m \in Monitors : TickFireP4(t, m)
  \/ \E t \in TickSlots : TickValidP4(t)
  \/ \E t \in TickSlots : TickProbeP4(t)
  \/ \E t \in TickSlots : TickReadyP4(t)
  \/ \E t \in TickSlots : TickQrVisP4(t)
  \/ \E t \in TickSlots : TickReloadP4(t)

NextScan == NextTick \/ UserScans(globalBrowser)

\* A timer that is set fires, and a callback goes on when the operation it
\* awaits has returned.
SpecScan == InitScan /\ [][NextScan]_vars /\ WF_vars(NextTick)


\* ============================================ refreshes that run at once
\* A session that waits for the scan, with the refreshes of its page
\* followed one by one: those of POST /refresh-qr, which several requests
\* may run at once, and those of the callbacks of the timer.  job.gen counts
\* the documents the page has loaded: every reload or goto that returns
\* replaces the document, and with it the QR code shown.  The operations
\* succeed, but for the extraction.
MaxReloads == 3     \* reloads of the page in one run

\* What extractQRCode holds of the QR canvas between finding it and
\* serializing it: index.js an ElementHandle of page.$$, which belongs to the
\* document it was found in; part_004 a Locator, which looks the element up
\* again whenever it is used.
qrElement(gen) ==
  IF variant = "part004" THEN [kind |-> "locator", gen |-> 0]
                         ELSE [kind |-> "handle", gen |-> gen]

\* A serialization that reads the canvas the handle was found on even after
\* its document is gone.
toDataURLDetached(el, gen) == IF el.kind = "locator" THEN gen ELSE el.gen

\* qrElement.evaluate(canvas => canvas.toDataURL()) and the screenshot
\* fallback: the document whose QR code is read, -1 when both throw because
\* the document of the handle was replaced.
toDataURL(el, gen) ==
  IF el.kind = "locator" \/ el.gen = gen THEN gen ELSE -1

\* A handler of POST /refresh-qr: own is the document its reload gave, ops
\* the steps of the refresh done so far.
NoRefresh == [pc |-> "idle", el |-> qrElement(0), own |-> 0, ops |-> <<>>]

\* results: the credential last handed to a caller, with the document the
\* page showed then; summary: the refresh last completed.
InitSupersede ==
  /\ variant \in {"index", "part004"}
  /\ AwaitingScan
  /\ job = [route |-> "refreshes", gen |-> 0, h |-> [s \in Slots |-> NoRefresh],
            tick |-> [pc |-> "idle", ops |-> <<>>], qrRefreshInProgress |-> FALSE,
            results |-> <<>>, summary |-> <<>>]

\* POST /refresh-qr up to its first await: reload (part_004: goto) is issued.
RefreshRequested(s) ==
  /\ job.route = "refreshes" /\ job.h[s].pc = "idle" /\ job.gen < MaxReloads
  /\ globalPage # 0 /\ ~isLoggedIn
  /\ job' = [job EXCEPT !.h[s].pc = "reload", !.h[s].ops = <<>>]
  /\ UNCHANGED <<variant, session, qrMonitoringIntervalId, world, monitors, ticks,
                 reqs, calls, fires, launched, ret, loginSeen>>

\* The reload returned; after the wait and handleCompatibilityWarnings,
\* extractQRCode is called.
RefreshReloadedPage(s) ==
  /\ job.route = "refreshes" /\ job.h[s].pc = "reload"
  /\ job' = [job EXCEPT !.gen = @ + 1, !.h[s].pc = "find", !.h[s].own = job.gen + 1,
                        !.h[s].ops = <<"reload", "dismiss">>]
  /\ UNCHANGED <<variant, session, qrMonitoringIntervalId, world, monitors, ticks,
                 reqs, calls, fires, launched, ret, loginSeen>>

\* extractQRCode found the QR canvas and waits before it serializes it.
QrFound(s) ==
  /\ job.route = "refreshes" /\ job.h[s].pc = "find"
  /\ job' = [job EXCEPT !.h[s].pc = "serialize", !.h[s].el = qrElement(job.gen)]
  /\ UNCHANGED <<variant, session, qrMonitoringIntervalId, world, monitors, ticks,
                 reqs, calls, fires, launched, ret, loginSeen>>

\* The serialization returned, extractQRCode returns and the route answers:
\* with the credential, or with the error.
QrSerialized(s) ==
  /\ job.route = "refreshes" /\ job.h[s].pc = "serialize"
  /\ LET of == toDataURL(job.h[s].el, job.gen)
         done == <<[by |-> "refresh-qr", ops |-> Append(job.h[s].ops, "extract")]>>
     IN job' = IF of < 0
               THEN [job EXCEPT !.h[s] = NoRefresh, !.summary = done]
               ELSE [job EXCEPT !.h[s] = NoRefresh, !.summary = done,
                       !.results = <<[of |-> of, page |-> job.gen,
                                      own |-> job.h[s].own]>>]
  /\ UNCHANGED <<variant, session, qrMonitoringIntervalId, world, monitors, ticks,
                 reqs, calls, fires, launched, ret, loginSeen>>

\* A callback of the timer found the session not logged in and decides on a
\* refresh: index.js reloads when the QR code is old (stale) and, if not,
\* when the canvas is gone (absent); part_004 when either holds and no
\* refresh of the timer is in progress.
TickDecided ==
  /\ job.route = "refreshes" /\ job.tick.pc = "idle" /\ job.gen < MaxReloads
  /\ \E stale, absent \in BOOLEAN :
       /\ stale \/ absent
       /\ variant = "part004" => ~job.qrRefreshInProgress
       /\ job' = [job EXCEPT !.tick = [pc |-> "reload", ops |-> <<>>],
                    !.qrRefreshInProgress = (variant = "part004")]
  /\ UNCHANGED <<variant, session, qrMonitoringIntervalId, world, monitors, ticks,
                 reqs, calls, fires, launched, ret, loginSeen>>

\* The reload of the callback, the wait and handleCompatibilityWarnings
\* returned.  index.js: the refresh is over.  part_004: extractQRCode is
\* called.
TickReloadedPage ==
  /\ job.route = "refreshes" /\ job.tick.pc = "reload"
  /\ job' = IF variant = "part004"
            THEN [job EXCEPT !.gen = @ + 1,
                    !.tick = [pc |-> "extract", ops |-> <<"reload", "dismiss">>]]
            ELSE [job EXCEPT !.gen = @ + 1, !.tick = [pc |-> "idle", ops |-> <<>>],
                    !.summary = <<[by |-> "monitor", ops |-> <<"reload", "dismiss">>]>>]
  /\ UNCHANGED <<variant, session, qrMonitoringIntervalId, world, monitors, ticks,
                 reqs, calls, fires, launched, ret, loginSeen>>

\* part_004: the extractQRCode of the callback returned; its result is
\* logged and dropped.
TickExtracted ==
  /\ job.route = "refreshes" /\ job.tick.pc = "extract"
  /\ job' = [job EXCEPT !.tick = [pc |-> "idle", ops |-> <<>>],
               !.qrRefreshInProgress = FALSE,
               !.summary = <<[by |-> "monitor", ops |-> Append(job.tick.ops, "extract")]>>]
  /\ UNCHANGED <<variant, session, qrMonitoringIntervalId, world, monitors, ticks,
                 reqs, calls, fires, launched, ret, loginSeen>>

NextSupersede ==
  \/ \E s \in Slots : RefreshRequested(s)
  \/ \E s \in Slots : RefreshReloadedPage(s)
  \/ \E s \in Slots : QrFound(s)
  \/ \E s \in Slots : QrSerialized(s)
  \/ TickDecided
  \/ TickReloadedPage
  \/ TickExtracted

SpecSupersede == InitSupersede /\ [][NextSupersede]_vars


\* ================================================ the monitor on a clock
\* index.js: the timer of monitorQRScanCompletion and POST /refresh-qr with
\* their waits, on the clock of job.now (in half milliseconds).  A browser
\* operation that is not a wait returns at once; a wait takes its time
\* exactly.  Nobody scans, so every probe of the login reports that the
\* session is not authenticated, after the timeout of each of its selectors.
MaxClock == 300000      \* milliseconds after which the timer no longer fires
MaxAbsent == 1          \* callbacks that find the QR canvas gone, in one run
checkInterval == 10000  \* setInterval(..., 10000)
qrRefreshInterval == 120000
loginSelectors == 5     \* selectors checkLoginStatus waits for, 3000 ms each
monitorMaxWaitTime(isCloud) == IF isCloud THEN 300000 ELSE 180000

\* job.ticks: the callbacks that run, each with its currentTime t, the time
\* its await returns and, from the stale test on, the time since the last
\* refresh; job.h: the handler of POST /refresh-qr.
\* job.refreshed: what lastQRRefresh holds of the writes that follow a
\* reload.  job.issuedAt: metadata.timestamp of the credential last handed
\* out.  job.results: what the callback that ended last decided;
\* job.summary: the reload for staleness issued last.
InitMonitor ==
  /\ variant = "index"
  /\ AwaitingScan
  /\ \E isCloud \in BOOLEAN :
       job = [route |-> "monitor", isCloud |-> isCloud, now |-> 0, gen |-> 0,
              nextFire |-> waitForTimeout(checkInterval),
              startTime |-> 0, lastQRRefresh |-> 0, refreshed |-> 0,
              ticks |-> {}, absences |-> 0,
              h |-> [pc |-> "idle", due |-> 0, el |-> 0], posts |-> 0,
              issuedAt |-> 0, results |-> <<>>, summary |-> <<>>]

\* The callback ends: its decision is recorded, and lines 556-563 restart
\* the window when it is over.
finish(j, tk, invoked, absent) ==
  LET done == [j EXCEPT !.ticks = @ \ {tk},
                 !.results = <<[t |-> tk.t, invoked |-> invoked, absent |-> absent,
                                since |-> tk.since]>>]
  IN IF tk.t - j.startTime > monitorMaxWaitTime(j.isCloud)
     THEN [done EXCEPT !.startTime = DateNow(j.now), !.lastQRRefresh = DateNow(j.now)]
     ELSE done

\* The query for the QR canvas of lines 542-543, after the stale branch:
\* when it is gone the page is reloaded, else the callback ends.
canvasQuery(j, tk, invoked, absent) ==
  IF absent
  THEN [j EXCEPT !.ticks = (@ \ {tk}) \cup
                   {[tk EXCEPT !.pc = "absent",
                       !.due = j.now + waitForTimeout(15000) + waitForTimeout(5000)]},
                 !.gen = @ + 1, !.absences = @ + 1]
  ELSE finish(j, tk, invoked, FALSE)

\* The timer fires: the page is valid, currentTime is read and
\* checkLoginStatus is called.
TimerFires ==
  /\ job.route = "monitor" /\ job.now = job.nextFire
  /\ DateNow(job.now) <= MaxClock
  /\ globalPage # 0 /\ ~isLoggedIn
  /\ job' = [job EXCEPT !.nextFire = @ + waitForTimeout(checkInterval),
               !.ticks = @ \cup {[t |-> DateNow(job.now), pc |-> "probe", since |-> 0,
                                  due |-> job.now + loginSelectors * waitForTimeout(3000)]}]
  /\ UNCHANGED <<variant, session, qrMonitoringIntervalId, world, monitors, ticks,
                 reqs, calls, fires, launched, ret, loginSeen>>

\* checkLoginStatus returned not logged in: the stale test of line 525, and
\* when it fails the query for the canvas.
ProbeTimedOut ==
  /\ job.route = "monitor"
  /\ \E tk0 \in job.ticks :
       /\ tk0.pc = "probe" /\ tk0.due = job.now
       /\ LET tk == [tk0 EXCEPT !.since = tk0.t - job.refreshed] IN
          IF tk.t - job.lastQRRefresh > qrRefreshInterval
          THEN job' = [job EXCEPT
                 !.ticks = (@ \ {tk0}) \cup
                   {[tk EXCEPT !.pc = "stale",
                       !.due = job.now + waitForTimeout(15000) + waitForTimeout(5000)]},
                 !.gen = @ + 1,
                 !.summary = <<[t |-> tk.t, at |-> DateNow(job.now),
                                issuedAt |-> job.issuedAt]>>]
          ELSE \E absent \in BOOLEAN :
                 /\ absent => job.absences < MaxAbsent
                 /\ job' = canvasQuery([job EXCEPT !.ticks = (@ \ {tk0}) \cup {tk}],
                                        tk, FALSE, absent)
  /\ UNCHANGED <<variant, session, qrMonitoringIntervalId, world, monitors, ticks,
                 reqs, calls, fires, launched, ret, loginSeen>>

\* The reload of a callback, its wait and handleCompatibilityWarnings
\* returned: lastQRRefresh = currentTime; after the stale branch the canvas
\* is queried, after the other the callback ends.
MonitorRefreshed ==
  /\ job.route = "monitor"
  /\ \E tk \in job.ticks :
       /\ tk.pc \in {"stale", "absent"} /\ tk.due = job.now
       /\ LET j == [job EXCEPT !.lastQRRefresh = tk.t, !.refreshed = tk.t]
          IN IF tk.pc = "absent"
             THEN job' = finish(j, tk, TRUE, TRUE)
             ELSE \E absent \in BOOLEAN :
                    /\ absent => job.absences < MaxAbsent
                    /\ job' = canvasQuery(j, tk, TRUE, absent)
  /\ UNCHANGED <<variant, session, qrMonitoringIntervalId, world, monitors, ticks,
                 reqs, calls, fires, launched, ret, loginSeen>>

\* POST /refresh-qr arrives: the page is reloaded and the route waits.
RefreshQrPosted ==
  /\ job.route = "monitor" /\ job.h.pc = "idle" /\ job.posts = 0
  /\ DateNow(job.now) <= MaxClock
  /\ globalPage # 0 /\ ~isLoggedIn
  /\ job' = [job EXCEPT !.posts = 1, !.gen = @ + 1,
               !.h = [pc |-> "reloaded", el |-> 0,
                      due |-> job.now + waitForTimeout(15000) + waitForTimeout(5000)]]
  /\ UNCHANGED <<variant, session, qrMonitoringIntervalId, world, monitors, ticks,
                 reqs, calls, fires, launched, ret, loginSeen>>

\* The steps of extractQRCode in the route: its first wait, then the canvas
\* found and the wait of 3000, then the serialization and the answer.
RefreshQrExtracts ==
  /\ job.route = "monitor" /\ job.h.pc # "idle" /\ job.h.due = job.now
  /\ job' =
       CASE job.h.pc = "reloaded" ->
              [job EXCEPT !.h.pc = "settle",
                 !.h.due = job.now + waitForTimeout(IF job.isCloud THEN 12000 ELSE 6000)]
         [] job.h.pc = "settle" ->
              [job EXCEPT !.h.pc = "found", !.h.el = job.gen,
                 !.h.due = job.now + waitForTimeout(3000)]
         [] OTHER ->
              IF job.h.el = job.gen
              THEN [job EXCEPT !.h.pc = "idle", !.issuedAt = toISOString(job.now)]
              ELSE [job EXCEPT !.h.pc = "idle"]
  /\ UNCHANGED <<variant, session, qrMonitoringIntervalId, world, monitors, ticks,
                 reqs, calls, fires, launched, ret, loginSeen>>

\* The times at which something returns or fires.
Due(j) ==
  {tk.due : tk \in j.ticks} \cup (IF j.h.pc = "idle" THEN {} ELSE {j.h.due})
    \cup (IF DateNow(j.nextFire) <= MaxClock THEN {j.nextFire} ELSE {})

\* Nothing is due now: the clock moves to the next of these times.
TimePasses ==
  /\ job.route = "monitor"
  /\ Due(job) # {} /\ job.now \notin Due(job)
  /\ job' = [job EXCEPT !.now = CHOOSE d \in Due(job) : \A e \in Due(job) : d <= e]
  /\ UNCHANGED <<variant, session, qrMonitoringIntervalId, world, monitors, ticks,
                 reqs, calls, fires, launched, ret, loginSeen>>

NextTimed ==
  \/ TimerFires
  \/ ProbeTimedOut
  \/ MonitorRefreshed
  \/ RefreshQrPosted
  \/ RefreshQrExtracts
  \/ TimePasses

SpecMonitor == InitMonitor /\ [][NextTimed]_vars


\* ============================================ the monitor and a refresh
\* part_004: a session that waits for the scan, its timer, and POST
\* /refresh-qr, which starts the monitor again when it has a new QR code.
InitRescan ==
  /\ variant = "part004"
  /\ AwaitingScan
  /\ job = NoJob

NextRescan ==
  \/ \E s \in Slots : RefreshCallP4(s)
  \/ \E s \in Slots : RefreshGotoP4(s)
  \/ \E s \in Slots : RefreshExtractP4(s)
  \/ \E t \in TickSlots, m \in Monitors : TickFireP4(t, m)
  \/ \E t \in TickSlots : TickValidP4(t)
  \/ \E t \in TickSlots : TickProbeP4(t)
  \/ \E t \in TickSlots : TickReadyP4(t)
  \/ \E t \in TickSlots : TickQrVisP4(t)
  \/ \E t \in TickSlots : TickReloadP4(t)
  \/ UserScans(globalBrowser)

SpecRescan == InitRescan /\ [][NextRescan]_vars


\* ================================================ the link of the chat
\* navigateToChat from mobile.replace to the URL handed to goto, for every
\* string over a small alphabet of digits and other characters, among them
\* the separators of a query string.
MaxLen == 3     \* characters of a destination
DigitChars == {"1", "2"}
MobileChars == DigitChars \cup {"+", " ", "&"}

\* A replace that removes the first match only, as a pattern without the g
\* flag does.
RECURSIVE cleanNumberFirstOnly(_)
cleanNumberFirstOnly(mobile) ==
  IF mobile = <<>> THEN <<>>
  ELSE IF Head(mobile) \in DigitChars
       THEN <<Head(mobile)>> \o cleanNumberFirstOnly(Tail(mobile))
       ELSE Tail(mobile)

\* mobile.replace(/[^\d]/g, ''): every character that is not a digit is
\* replaced by nothing, from left to right.
RECURSIVE cleanNumber(_)
cleanNumber(mobile) ==
  IF mobile = <<>> THEN <<>>
  ELSE IF Head(mobile) \in DigitChars
       THEN <<Head(mobile)>> \o cleanNumber(Tail(mobile))
       ELSE cleanNumber(Tail(mobile))

\* The template of the URL, character by character after its fixed head.
waUrl(number) ==
  <<"https://web.whatsapp.com/send?phone=">> \o number \o
    (IF variant = "part004" THEN <<"&", "t", "e", "x", "t", "&", "app_absent=0">>
                            ELSE <<>>)

\* The value of the first parameter of a query string: what follows its
\* name up to the next separator.
RECURSIVE upToSeparator(_)
upToSeparator(str) ==
  IF str = <<>> \/ Head(str) = "&" THEN <<>>
  ELSE <<Head(str)>> \o upToSeparator(Tail(str))

\* job.items: the destination; job.content: the URL navigated to;
\* job.results: the clean number cleaned once more.
InitLink ==
  /\ variant \in {"index", "part004"}
  /\ AwaitingScan
  /\ \E n \in 0..MaxLen : \E mobile \in [1..n -> MobileChars] :
       job = [route |-> "link", pc |-> "start", items |-> mobile,
              content |-> <<>>, results |-> <<>>]

\* The URL is built and goto is called.
BuildLink ==
  /\ job.route = "link" /\ job.pc = "start"
  /\ job' = [job EXCEPT !.pc = "goto",
               !.content = waUrl(cleanNumber(job.items)),
               !.results = cleanNumber(cleanNumber(job.items))]
  /\ UNCHANGED <<variant, session, qrMonitoringIntervalId, world, monitors, ticks,
                 reqs, calls, fires, launched, ret, loginSeen>>

SpecLink == InitLink /\ [][BuildLink]_vars


\* ================================================ typing in chunks
\* part_004: sendCombinedMessage from the composition of the content to the
\* last chunk typed, for parts of lengths around the size of a chunk.
ChunkSize == 100    \* /.{1,100}/g
Lengths == {0, 1, 99, 100, 101}
Rep(c, n) == [k \in 1..n |-> c]

\* combinedContent.match(/.{1,100}/g) || []: from left to right, each match
\* takes as many characters as it can, up to the size of a chunk, of those
\* the dot matches, which are all but the line terminators; where no match
\* begins the search moves on by one character.
RECURSIVE chunksOf(_)
chunksOf(str) ==
  IF str = <<>> THEN <<>>
  ELSE IF Head(str) = "\n" THEN chunksOf(Tail(str))
  ELSE LET stops == {k \in 1..Len(str) : str[k] = "\n"} \cup {Len(str) + 1, ChunkSize + 1}
           n == (CHOOSE k \in stops : \A l \in stops : k <= l) - 1
       IN <<SubSeq(str, 1, n)>> \o chunksOf(SubSeq(str, n + 1, Len(str)))

\* The parts of a request the route of part_004 lets through.  job.results:
\* the chunks still to type; job.content: what the compose box holds;
\* job.summary: the lengths of the chunks typed.
InitType ==
  /\ variant = "part004"
  /\ InitSession
  /\ \E m \in Lengths \cup {-1}, u \in Lengths, c \in Lengths :
       LET message == IF m < 0 THEN <<" ">> ELSE Rep("a", m) IN
       /\ contentGivenP4(message, Rep("b", u))
       /\ job = [ComposeJob(message, Rep("b", u), Rep("c", c)) EXCEPT !.route = "type"]

\* The content is composed: a blank one throws, else it is cut in chunks.
CutInChunks ==
  /\ job.route = "type" /\ job.pc = "start"
  /\ LET it == job.items[1]
         content == combinedContent(it.mediaUrl, it.caption, it.message)
     IN job' = IF trim(content) = <<>>
               THEN [job EXCEPT !.pc = "done", !.raised = TRUE]
               ELSE [job EXCEPT !.pc = "typing", !.results = chunksOf(content)]
  /\ UNCHANGED <<variant, session, qrMonitoringIntervalId, world, monitors, ticks,
                 reqs, calls, fires, launched, ret, loginSeen>>

\* messageBox.type(chunk) returned: the chunk is in the compose box; after
\* the last one the function goes on to send.
TypeChunk ==
  /\ job.route = "type" /\ job.pc = "typing"
  /\ job' = IF job.results = <<>>
            THEN [job EXCEPT !.pc = "typed"]
            ELSE [job EXCEPT !.content = @ \o Head(job.results),
                             !.summary = Append(@, Len(Head(job.results))),
                             !.results = Tail(@)]
  /\ UNCHANGED <<variant, session, qrMonitoringIntervalId, world, monitors, ticks,
                 reqs, calls, fires, launched, ret, loginSeen>>

SpecType == InitType /\ [][CutInChunks \/ TypeChunk]_vars


\* ============================================== errors of the page
\* extractQRCode (index.js) and checkLoginStatus (index.js, part_004) step
\* by step, on a page that shows the QR code or the chats, on a closed page
\* and without a page, while a cleanup may end the session under them.
\* A step is a page operation with the construct that guards it: "try", it
\* is awaited in the try block of the function; "catch", its promise has a
\* .catch of its own, which gives a fallback value; "inner", it is awaited
\* in a try block of its own, whose catch goes on.  exit tells whether the
\* function returns its failure when the fallback value comes; on, whether
\* the operation is called on globalPage or on the element found.
Steps(fn) ==
  IF fn = "checkLoginStatus"
  THEN <<[guard |-> "catch", exit |-> TRUE, on |-> "page"]>> \o
       [k \in 1..loginSelectors |-> [guard |-> "inner", exit |-> FALSE, on |-> "page"]]
  ELSE << \* waitForTimeout(waitTime)
          [guard |-> "try", exit |-> FALSE, on |-> "page"],
          \* evaluate(() => true)
          [guard |-> "catch", exit |-> TRUE, on |-> "page"],
          \* $$('canvas')
          [guard |-> "catch", exit |-> FALSE, on |-> "page"],
          \* the loop over qrSelectors; without an element the failure
          [guard |-> "inner", exit |-> TRUE, on |-> "page"],
          \* waitForTimeout(3000)
          [guard |-> "try", exit |-> FALSE, on |-> "page"],
          \* qrElement.evaluate
          [guard |-> "catch", exit |-> FALSE, on |-> "element"],
          \* qrElement.screenshot
          [guard |-> "inner", exit |-> TRUE, on |-> "element"] >>

\* What a page operation does.  Called on globalPage without a page, the
\* call itself throws a TypeError; on a closed page or a dead browser its
\* promise rejects; else it returns, or rejects for a reason of its own.
Outcomes(on) ==
  IF on = "page" /\ globalPage = 0 THEN {"throws"}
  ELSE IF on = "page" /\ ~Usable(globalPage) THEN {"rejects"}
  ELSE IF on = "element" /\ alive = {} THEN {"rejects"}
  ELSE {"returns", "rejects"}

\* A .catch on the promise taken as a guard against the failing call too.
handledByCatchOnly(guard, outcome) ==
  CASE outcome = "returns" -> "next"
    [] guard = "inner" -> "fallback"
    [] guard = "catch" /\ outcome = "rejects" -> "fallback"
    [] guard = "catch" /\ outcome = "throws" -> "raise"
    [] OTHER -> "failure"

\* Where an outcome leads: to the next step, to the fallback of the guard,
\* or to the catch block of the function, which returns the failure.  A
\* TypeError thrown by the call is not a rejection: .catch never sees it.
handled(guard, outcome) ==
  CASE outcome = "returns" -> "next"
    [] guard = "inner" -> "fallback"
    [] guard = "catch" /\ outcome = "rejects" -> "fallback"
    [] OTHER -> "failure"

\* job.content: the function called; job.i: the step to do; job.waits: the
\* errors met; job.status: 1 when an error ended the call.
InitProbe ==
  /\ variant \in {"index", "part004"}
  /\ \E page \in {"none", "qr", "chats", "closed"} :
       /\ globalBrowser = (IF page = "none" THEN 0 ELSE 1)
       /\ globalPage = globalBrowser
       /\ isLoggedIn = FALSE /\ isWhatsAppReady = FALSE
       /\ qrMonitoringIntervalId = 0
       /\ alive = (IF page = "none" THEN {} ELSE {1})
       /\ closing = {}
       /\ pageOf = (IF page = "none" THEN <<>> ELSE <<1>>)
       /\ open = (IF page \in {"qr", "chats"} THEN {1} ELSE {})
       /\ loaded = open
       /\ authed = (IF page = "chats" THEN {1} ELSE {})
  /\ monitors = [m \in Monitors |-> NoMonitor]
  /\ ticks = [t \in TickSlots |-> IdleTick]
  /\ reqs = [s \in Slots |-> Idle]
  /\ calls = 0 /\ fires = 0 /\ launched = Len(pageOf)
  /\ ret = NoRet
  /\ loginSeen = FALSE
  /\ \E fn \in {"checkLoginStatus", "extractQRCode"} :
       /\ fn = "extractQRCode" => variant = "index"
       /\ job = [NoJob EXCEPT !.route = "probe", !.pc = "call", !.content = <<fn>>]

\* The function is called: part_004 returns not logged in at once without an
\* open page; else the first operation is awaited.
ProbeCalled ==
  /\ job.route = "probe" /\ job.pc = "call"
  /\ job' = IF variant = "part004" /\ (globalPage = 0 \/ isClosed(globalPage))
            THEN [job EXCEPT !.pc = "done", !.results = <<[success |-> FALSE]>>]
            ELSE [job EXCEPT !.pc = "step", !.i = 1]
  /\ UNCHANGED <<variant, session, qrMonitoringIntervalId, world, monitors, ticks,
                 reqs, calls, fires, launched, ret, loginSeen>>

\* The operation of step job.i ends.  checkLoginStatus returns logged in
\* from the first selector found visible; extractQRCode returns its QR code
\* after the last step.
ProbeStep ==
  /\ job.route = "probe" /\ job.pc = "step"
  /\ \E outcome \in Outcomes(Steps(job.content[1])[job.i].on) :
       LET fn == job.content[1]
           st == Steps(fn)[job.i]
           to == handled(st.guard, outcome)
           seen == job.waits + (IF outcome = "returns" THEN 0 ELSE 1)
           failure == [job EXCEPT !.pc = "done", !.waits = seen, !.status = 1,
                                  !.results = <<[success |-> FALSE]>>]
           last == job.i = Len(Steps(fn))
       IN job' =
            CASE to = "raise" -> [job EXCEPT !.pc = "done", !.waits = seen, !.raised = TRUE]
              [] to = "failure" \/ (to = "fallback" /\ st.exit) -> failure
              [] fn = "checkLoginStatus" /\ job.i > 1 /\ to = "next"
                   /\ checkLoginStatus(globalPage) ->
                   [job EXCEPT !.pc = "done", !.results = <<[success |-> TRUE]>>]
              [] last ->
                   [job EXCEPT !.pc = "done", !.waits = seen,
                      !.results = <<[success |-> fn = "extractQRCode"
                                                   /\ QRPresent(globalPage)]>>]
              [] OTHER -> [job EXCEPT !.i = @ + 1, !.waits = seen]
  /\ UNCHANGED <<variant, session, qrMonitoringIntervalId, world, monitors, ticks,
                 reqs, calls, fires, launched, ret, loginSeen>>

\* cleanup of another handler returns while the function is suspended: the
\* browser is closed and the session reset.
Teardown ==
  /\ job.route = "probe" /\ job.pc = "step" /\ globalBrowser # 0
  /\ alive' = {} /\ open' = {}
  /\ resetSession
  /\ UNCHANGED <<variant, job, qrMonitoringIntervalId, closing, pageOf, loaded, authed,
                 monitors, ticks, reqs, calls, fires, launched, ret, loginSeen>>

NextProbe == ProbeCalled \/ ProbeStep \/ Teardown

SpecProbe == InitProbe /\ [][NextProbe]_vars


\* ================================================================ claims
\* The timer of the session is set.  index.js keeps no handle of its timers.
MonitorRunning ==
  IF variant = "part004"
  THEN qrMonitoringIntervalId # 0 /\ monitors[qrMonitoringIntervalId].st = "active"
  ELSE ActiveMonitors # {}

\* C1: at most one launched browser is alive at any time, and every alive
\* browser is the one the session handle references.
C1_SingleBrowser ==
  Cardinality(alive) <= 1 /\ \A b \in alive : b = globalBrowser

\* C2: at most one dispatch is in flight on the session at any time.
C2_OneDispatch ==
  Cardinality({s \in Slots : Dispatching(s)}) <= 1

\* C3: no monitor tick has a page operation pending while a dispatch or an
\* initialize is in flight.
C3_TicksYield ==
  \A t \in TickSlots :
    ticks[t].pc # "idle" =>
      \A s \in Slots : ~Dispatching(s) /\ reqs[s].kind # "initialize"

\* C4: POST /initialize on a session that is logged in, holds a browser and,
\* in part_004, has the ready flag set answers 'already active' at once: no
\* handler is started (no launch, no page, no navigation) and the session,
\* the browsers, the pages and the timers are left as they were, so the next
\* call finds the same state.
C4_AlreadyActiveWhenReady ==
  [][\A s \in Slots :
       ( /\ isLoggedIn /\ globalBrowser # 0
         /\ variant = "part004" => isWhatsAppReady
         /\ InitializeCall(s) \/ InitializeCallP4(s) )
       => /\ ret'.kind = "initialize" /\ ret'.result = "alreadyActive"
          /\ ret'.loggedIn
          /\ UNCHANGED <<session, qrMonitoringIntervalId, world, monitors, ticks,
                         reqs, launched>>]_vars

\* C4 as stated: the same for every session that is logged in and holds a
\* browser, whatever the ready flag.
C4_AlreadyActive ==
  [][\A s \in Slots :
       ( /\ isLoggedIn /\ globalBrowser # 0
         /\ InitializeCall(s) \/ InitializeCallP4(s) )
       => /\ ret'.kind = "initialize" /\ ret'.result = "alreadyActive"
          /\ ret'.loggedIn
          /\ UNCHANGED <<session, qrMonitoringIntervalId, world, monitors, ticks,
                         reqs, launched>>]_vars

\* part_004 answered 'already active' to a second request.
C4_Witness ==
  /\ variant = "part004" /\ calls >= 2
  /\ ret.kind = "initialize" /\ ret.result = "alreadyActive"
  /\ isLoggedIn /\ isWhatsAppReady /\ globalBrowser # 0

C6_LoginSticks ==
  loginSeen => isLoggedIn /\ qrMonitoringIntervalId = 0

\* C7: after close() has returned, no tick of a monitor created before it has
\* a page operation pending on a page created since.
C7_NoTickAfterClose ==
  \A t \in TickSlots :
    (ticks[t].pc # "idle" /\ monitors[ticks[t].mon].closedAt >= 0)
      => ticks[t].pg <= monitors[ticks[t].mon].closedAt

\* C8: a tick that finds the maximum window exceeded never stops the timer
\* while leaving the session as it was.
C8_TimeoutNeverSilent ==
  [][\A m \in Monitors :
       (monitors[m].st = "active" /\ monitors'[m].st = "expired")
         => session' # session]_vars

\* C9: when close() returns and no other handler is running, the session is
\* Uninitialized.
C9_CloseResets ==
  (ret.kind = "close" /\ Busy = {}) =>
    globalBrowser = 0 /\ globalPage = 0 /\ ~isLoggedIn /\ ~isWhatsAppReady

\* C10: when an initialize() that ran alone on a fresh session fails, the
\* session is left Uninitialized: no handle is retained, both flags are false
\* and no monitor is running.
C10_FailedInitializeResets ==
  (ret.kind = "initialize" /\ ret.result = "error" /\ ret.solo) =>
    /\ globalBrowser = 0 /\ globalPage = 0 /\ ~isLoggedIn /\ ~isWhatsAppReady
    /\ ActiveMonitors = {}

\* The session holds no handle and both flags are false.
Uninitialized ==
  globalBrowser = 0 /\ globalPage = 0 /\ ~isLoggedIn /\ ~isWhatsAppReady

\* C11: when the browser the session holds disconnects, and when a tick's
\* validity check finds its page destroyed or closed, while no request
\* handler is running, the step leaves the session Uninitialized and no timer
\* of the session set.
C11_LossResets ==
  [][ Busy = {} =>
      /\ (globalBrowser # 0 /\ BrowserDisconnects(globalBrowser))
          => Uninitialized' /\ ~MonitorRunning'
      /\ \A t \in TickSlots :
           ( /\ ticks[t].pc = "valid" /\ ~Usable(ticks[t].pg)
             /\ TickValid(t) \/ TickValidP4(t) )
           => Uninitialized' /\ ~MonitorRunning' ]_vars

\* C12: the payload composed for a request is the parts among media
\* reference, caption and text body that are not empty, in that order, with
\* one newline between two parts and none before the first or after the last.
C12_Composition ==
  (job.route = "compose" /\ job.pc = "done") =>
    LET it == job.items[1]
        parts == SelectSeq(<<it.mediaUrl, it.caption, it.message>>,
                           LAMBDA part : part # <<>>)
    IN job.content =
         IF Len(parts) = 0 THEN <<>>
         ELSE IF Len(parts) = 1 THEN parts[1]
         ELSE IF Len(parts) = 2 THEN parts[1] \o NL \o parts[2]
         ELSE parts[1] \o NL \o parts[2] \o NL \o parts[3]

C14_EmptyBatchRefused ==
  (job.route = "batch" /\ job.pc = "done" /\ Len(job.items) = 0) =>
    /\ job.status = 400 /\ job.summary = <<>> /\ job.results = <<>>
    /\ job.i = 0 /\ job.pageOps = 0

\* C14 as stated: an empty list is answered with the summary total 0,
\* successful 0, failed 0, and sendCombinedMessage is not called.
C14_EmptyBatchSummary ==
  (job.route = "batch" /\ job.pc = "done" /\ Len(job.items) = 0) =>
    /\ job.summary = <<[total |-> 0, successful |-> 0, failed |-> 0]>>
    /\ job.i = 0 /\ job.pageOps = 0

\* An empty list was answered on a session that is logged in and ready.
C14_Witness ==
  /\ job.route = "batch" /\ job.pc = "done" /\ Len(job.items) = 0
  /\ ~sessionMissing /\ Usable(globalPage)

\* C15: a batch of N items that passes the checks of the request is answered
\* with N results and a summary whose successful and failed counts add up
\* to N.
C15_OneResultPerItem ==
  (job.route = "batch" /\ job.pc = "done" /\ job.status # 400) =>
    /\ Len(job.results) = Len(job.items)
    /\ job.summary # <<>>
    /\ job.summary[1].successful + job.summary[1].failed = Len(job.items)

\* C16: sendCombinedMessage never throws.
C16_NeverRaises == ~job.raised

\* C17: every result with success true was preceded by a corroborating
\* signal after the submit.
C17_SuccessVerified ==
  \A k \in 1..Len(job.results) : job.results[k].success => job.results[k].signal

\* C18: an item whose chat URL was loaded and showed the invalid-number
\* surface gets a failure that names the destination as invalid, without a
\* selector wait having timed out.
C18_InvalidDestination ==
  \A k \in 1..Len(job.results) :
    ( /\ job.items[k].mobile.surface = "invalid"
      /\ job.results[k].error \notin {"validation", "pageUnavailable", "navigation"} )
    => /\ ~job.results[k].success
       /\ job.results[k].error = "destinationInvalid"
       /\ job.results[k].waits = 0

\* C19: the QR code of every successful extraction, from the canvas or from
\* the element screenshot, is at least QRThreshold characters long.
C19_CredentialLength ==
  (job.route = "extract" /\ job.pc = "done" /\ job.results[1].success) =>
    job.results[1].qrLen >= QRThreshold

\* C20: of two credentials of successful extractions with a page reload of
\* POST /refresh-qr between them, the later has the strictly greater
\* timestamp.
C20_NewerIssuedAt ==
  job.route = "qr" =>
    \A a, b \in 1..Len(job.results) :
      a < b => job.results[a].issuedAt < job.results[b].issuedAt

\* Two refreshes after the extraction of initialize each gave a credential.
C20_Witness ==
  job.route = "qr" /\ Len(job.results) = 3 /\ job.i = 2

\* sendCombinedMessage is running for an item.
DispatchingItem(j) == j.pc \in {"navigate", "compose", "submit"}

C22_RefreshSteps ==
  (job.route = "refreshes" /\ job.summary # <<>>) =>
    job.summary[1].ops = <<"reload", "dismiss", "extract">>


\* C23: a callback of the timer that finds the session not authenticated
\* reloads the page if and only if the QR canvas is gone or more than the
\* refresh interval has passed since the last refresh of the monitor.
C23_RefreshIff ==
  (job.route = "monitor" /\ job.results # <<>>) =>
    (job.results[1].invoked <=>
       (job.results[1].absent \/ job.results[1].since > qrRefreshInterval))

\* C24: the monitor reloads for staleness only when more than the refresh
\* interval has passed since the credential last handed out was issued.
C24_StaleAfterInterval ==
  (job.route = "monitor" /\ job.summary # <<>>) =>
    job.summary[1].at - job.summary[1].issuedAt > qrRefreshInterval


\* C25: in a batch, sendCombinedMessage is called for an item only at the
\* start of the loop, when none was called before, or when the pause that
\* followed the return of the previous call is over; and the pause starts
\* only when a call returns its result.
C25_Sequential ==
  [][ job.route = "batch" =>
        /\ (DispatchingItem(job') /\ job'.i # job.i) =>
             \/ job.pc = "start" /\ job.i = 0
             \/ job.pc = "delay" /\ job'.i > job.i
        /\ (job'.pc = "delay" /\ job.pc # "delay") =>
             /\ DispatchingItem(job)
             /\ Len(job'.results) = Len(job.results) + 1 ]_vars

\* The second item of a batch is in hand after the first was dispatched and
\* its result pushed.
C25_Witness ==
  /\ job.route = "batch" /\ DispatchingItem(job) /\ job.i = 2
  /\ Len(job.results) = 1 /\ job.results[1].error # "validation"

\* C26: the routes of index.js hand a request or item to sendCombinedMessage
\* exactly when its destination is not empty and its text body, media
\* reference and caption are not all empty.
C26_AcceptedIff ==
  (variant = "index" /\ job.pc = "done" /\ job.route = "single" /\ ~sessionMissing) =>
    LET it == job.items[1] IN
    (job.status # 400) <=>
      /\ truthy(it.mobile)
      /\ (it.message # <<>> \/ it.mediaUrl # <<>> \/ it.caption # <<>>)

\* C27: a dispatch that finds the ready flag false, on a page that answers,
\* looks at the page before it fails; a round of its loop starts only while
\* less than maxWaitTime has passed since the loop began; the dispatch goes
\* on, with the flag set, once a round saw a landmark; and it fails for want
\* of a landmark only when maxWaitTime has passed.
C27_BoundedWait ==
  (job.route = "ready" /\ ~job.items[1].wasReady) =>
    LET bound == maxWaitTime(job.items[1].isCloud) IN
    /\ job.pc = "poll" => DateNow(job.now) - job.i < bound
    /\ job.pc = "proceed" => isWhatsAppReady
    /\ job.pc = "done" =>
         /\ job.waits >= 1
         /\ job.results[1].error = "notReady" =>
              /\ DateNow(job.now) - job.i >= bound
              /\ DateNow(job.content[1]) - job.i < bound
              /\ ~isWhatsAppReady
         /\ job.results[1].success => isWhatsAppReady
         /\ Usable(globalPage) => job.results[1].error \in {"none", "send", "notReady"}

\* A dispatch that found the flag false gave up after several rounds.
C27_Witness ==
  /\ job.route = "ready" /\ job.pc = "done" /\ ~job.items[1].wasReady
  /\ job.results[1].error = "notReady" /\ job.waits > 2 /\ Usable(globalPage)


\* C28: every request of the send routes is answered, and a batch whose
\* items are being processed reaches its summary.
C28_BatchReachesSummary ==
  /\ (job.pc = "start") ~> (job.pc = "done")
  /\ (job.route = "batch" /\ job.pc # "start" /\ job.status # 400)
       ~> (job.pc = "done" /\ job.summary # <<>>)

\* C29: once the landmark of the authenticated UI is visible on the page of
\* a session that waits for the scan, with the timer set and a tick of it
\* still to come, the session becomes logged in and the timer is cleared.
C29_ScanCompletes ==
  (checkLoginStatus(globalPage) /\ ~isLoggedIn /\ MonitorRunning /\ fires < MaxFires)
    ~> (isLoggedIn /\ ~MonitorRunning)


\* C30: the handle sendCombinedMessage clicks is the first candidate, in the
\* order of messageSelectors, that is visible; when no candidate is visible
\* the call fails with 'Message input box not found' and nothing is typed.
C30_FirstVisible ==
  (job.route = "find" /\ job.pc = "done") =>
    LET visible == {k \in 1..Len(job.items) : job.items[k] = "visible"} IN
    IF visible = {}
    THEN /\ ~job.results[1].success /\ ~job.results[1].typed
         /\ job.results[1].error = "Message input box not found"
    ELSE job.i \in visible /\ \A k \in visible : job.i <= k



\* C33: the chunks sendCombinedMessage has typed, one after the other, are
\* the composed content character for character, newlines included, and no
\* chunk is longer than 100 characters.
C33_ChunksAreContent ==
  (job.route = "type" /\ job.pc = "typed") =>
    /\ job.content = combinedContent(job.items[1].mediaUrl, job.items[1].caption,
                                     job.items[1].message)
    /\ \A k \in 1..Len(job.summary) : job.summary[k] <= ChunkSize


\* C34: the monitor that POST /refresh-qr started is stopped for its
\* timeout only by a callback of its own timer: a callback of an earlier
\* timer that is still running cannot cancel it.
C34_OwnTimeoutOnly ==
  [][\A m \in Monitors :
       (monitors[m].st = "active" /\ monitors'[m].st = "expired") =>
         \E t \in TickSlots :
           ticks[t].mon = m /\ ticks[t].pc \in {"qrvis", "reload"}]_vars


\* C35: at most one timer of the monitor is active at any time.
C35_OneMonitor ==
  Cardinality(ActiveMonitors) <= 1

\* C36: the callbacks of one timer never overlap: while one of them has a
\* page operation or a wait pending, no other has begun.
C36_TicksDoNotOverlap ==
  job.route = "monitor" => Cardinality(job.ticks) <= 1


\* C37: in every reachable state, logged in implies that the browser handle
\* and the page handle are both set.
C37_LoggedInHasHandles ==
  isLoggedIn => (globalBrowser # 0 /\ globalPage # 0)

\* C38: in every reachable state, the ready flag is set only while the
\* session is logged in.
C38_ReadyOnlyLoggedIn ==
  isWhatsAppReady => isLoggedIn



\* C39: in every summary POST /send-messages answers with, total is the
\* number of items of the request and the number of results, successful
\* and failed add up to total, and the k-th result carries the id and the
\* outcome of the k-th item.
C39_SummaryMatchesItems ==
  (job.route = "batch" /\ job.summary # <<>>) =>
    /\ job.summary[1].total = Len(job.items)
    /\ job.summary[1].total = Len(job.results)
    /\ job.summary[1].successful + job.summary[1].failed = job.summary[1].total
    /\ \A k \in 1..Len(job.results) :
         /\ job.results[k].id = k
         /\ (job.results[k].error = "validation") <=> itemInvalid(job.items[k])
         /\ job.results[k].success => job.items[k].mobile.surface = "chat"

\* A summary of a batch whose first item was sent and whose second was
\* refused by the validation.
C39_Witness ==
  /\ job.route = "batch" /\ job.summary # <<>> /\ Len(job.items) = 2
  /\ job.results[1].success /\ job.results[2].error = "validation"
  /\ job.summary[1].successful = 1 /\ job.summary[1].failed = 1



\* C31: extractQRCode and checkLoginStatus never raise: a call that an
\* error of the page ended, a destroyed page or a missing page handle among
\* them, returned its failure result, and no step of a call changes a field
\* of the session.
C31_NeverRaises ==
  /\ [](job.route = "probe" /\ job.pc = "done" =>
          /\ ~job.raised /\ Len(job.results) = 1
          /\ job.status = 1 => ~job.results[1].success)
  /\ [][job' # job => session' = session]_vars

\* extractQRCode has met the TypeError of a page handle that cleanup set to
\* null while the call was suspended, and has returned.
C31_Witness ==
  /\ job.route = "probe" /\ job.pc = "done" /\ job.content = <<"extractQRCode">>
  /\ globalPage = 0 /\ job.i > 1 /\ job.status = 1


\* C32: the phone parameter of the URL navigateToChat navigates to is made
\* of the digits of the destination, all of them and in their order, and
\* cleaning the clean number again changes nothing.
C32_PhoneIsDigits ==
  (job.route = "link" /\ job.pc = "goto") =>
    LET phone == upToSeparator(Tail(job.content))
        IsDigit(c) == c \in DigitChars
    IN /\ phone = SelectSeq(job.items, IsDigit)
       /\ job.results = phone

\* A destination with two characters that are not digits around a digit.
C32_Witness ==
  /\ job.route = "link" /\ job.pc = "goto"
  /\ job.items = <<"+", "1", "&">> /\ Len(job.content) > 1


====
